---- MODULE Spec2Model ----
(***************************************************************************)
(* A model of the highlight-detection pipeline of SportsClips:             *)
(*   app/core/analyzeAudio.py             detector, merger, clip extractor  *)
(*   app/core/analyzeAudio-percentile.py  percentile-threshold detector     *)
(*   app/core/highlightsInspector.py      frame scoring with retries        *)
(*   app/core/highlightStitcher.py        selection and stitching           *)
(*                                                                         *)
(* Units.  Segment times handed to merge_close_segments and to             *)
(* extract_highlight_clips are whole seconds; gap_threshold is counted in   *)
(* half seconds (so 0.5 s = 1 and 4.0 s = 8).  Window times of the          *)
(* detector are centiseconds.  Scores are tenths; thresholds compared with  *)
(* scores are thousandths (a score s is above a threshold t iff             *)
(* 100 * s > t), which keeps np.percentile's interpolation exact.           *)
(* Category probabilities are exact rationals num / den, the three of a     *)
(* response over one den (100 as parsed: hundredths).  Waits are seconds.   *)
(***************************************************************************)
EXTENDS Integers, Sequences, FiniteSets, TLC

VARIABLES
    \* merge_close_segments(segments, gap_threshold)
    m_segments,         \* the argument `segments`
    gap_threshold,      \* the argument `gap_threshold`, in half seconds
    merged_segments,    \* the local `merged_segments`
    m_i,                \* index in m_segments of the next (start, end) of the for loop
    m_pc,               \* "idle" | "call" | "loop" | "return"
    \* AudioExcitementDetector._find_excitement_segments, both detectors
    scores,             \* the score series, one score (tenths) per window
    hop,                \* hop_length / sr: centiseconds between successive windows
    excitement_threshold,   \* self.excitement_threshold of the fixed detector (thousandths)
    percentile_threshold,   \* self.percentile_threshold of the percentile detector
    threshold,          \* the percentile detector's computed threshold (thousandths)
    f_segments,         \* fixed detector: the local `segments`
    f_start_time,       \* fixed detector: the local `start_time`
    f_i,                \* fixed detector: index of the next window of the for loop
    f_pc,               \* fixed detector: "idle" | "call" | "loop" | "return"
    p_segments,         \* percentile detector: the local `segments`
    p_start_time,       \* percentile detector: the local `start_time`
    p_i,                \* percentile detector: index of the next window of the for loop
    p_pc,               \* percentile detector: "idle" | "call" | "loop" | "return"
    \* AudioExcitementDetector.detect_excitement: the score of the FeatureSeries
    high_freq_energy,   \* raw signal, one value per window
    contrast_mean,      \* raw signal, one value per window
    rms,                \* raw signal, one value per window
    excitement_score,   \* the combined score series
    s_pc,               \* "idle" | "call" | "scored"
    \* extract_highlight_clips(video_file, segments, output_dir)
    c_segments,         \* the argument `segments`
    c_i,                \* the loop index i of enumerate(segments, 1)
    buffered_start,     \* locals of the current iteration
    buffered_end,
    duration,
    metadata,           \* the local `metadata`, returned
    files,              \* the files of output_dir: <<"temp", i>>, <<"highlight", i>>
    outcomes,           \* what the two ffmpeg passes did for each segment handled so far
    c_pc,               \* "idle" | "iter" | "first_pass" | "second_pass" | "cleanup"
                        \* | "except" | "return"
    \* HighlightInspector.parse_model_response(text_response)
    text_response,      \* the argument
    probabilities,      \* the local `probabilities`
    prediction,         \* the local `prediction`
    analysis_details,   \* the local `analysis_details`
    r_pc,               \* "idle" | "call" | "extracted" | "normalized" | "return"
    \* HighlightInspector.analyze_sequence and the analyze_frame call it makes
    data,               \* the loaded list of entries
    results,            \* the local `results`
    errors,             \* the local `errors`: the frame numbers of its messages
    a_i,                \* the loop variable `i`
    delays,             \* the 2 s sleeps between frames so far
    max_retries,        \* analyze_frame: the parameter
    attempt,            \* analyze_frame: the loop variable `attempt`
    attempt_log,        \* analyze_frame: what happened in each attempt of this call
    requests_sent,      \* analyze_frame: requests.post calls of this call
    waits,              \* analyze_frame: the time.sleep calls of this call, in seconds
    analysis,           \* what analyze_frame returned
    a_pc,               \* "idle" | "seq_iter" | "attempt" | "frame_return" | "write"
                        \* | "return" | "raised"
    \* highlightStitcher: get_highlight_files, then stitch_highlights
    sequences,          \* the sequences read from the analysis file
    existing,           \* the clip numbers whose highlight_<n>.mp4 exists
    highlight_files,    \* the local `highlight_files`, as clip numbers
    h_i,                \* the position of the loop over `sequences`
    h_log,              \* the warnings and errors printed so far
    list_file,          \* highlights_list.txt exists
    concat_runs,        \* the ffmpeg concat runs: the list each was given
    reel,               \* the output file: None, or Some(the clips in it)
    h_pc,               \* "idle" | "select" | "stitch" | "concat" | "return"
    \* analyzeImages.extract_frames(highlight_metadata_file)
    highlight_metadata, \* the entries read from the clip metadata file
    clip_files,         \* the clip numbers whose highlight_<n>.mp4 exists
    image_metadata,     \* the local dict, as a set of [key, clip_index, frames]
    e_i,                \* the loop variable `clip_index`
    e_duration,         \* the local `duration`
    e_log,              \* what happened to each entry so far
    metadata_file,      \* image_metadata.json: None, or Some(the dict written)
    e_result,           \* the return value: None until the call returns
    e_pc,               \* "idle" | "call" | "loop" | "snapshots" | "return"
    \* shortlist_highlights(video_id)
    bucket,             \* the objects of this video in the S3 bucket
    disk,               \* the local files of this video that exist
    stages,             \* the calls made so far, in order
    failed_downloads,   \* the downloads in which boto3 raised
    exciting_moments,   \* what detect_excitement returned
    merged_moments,     \* what merge_close_segments returned
    sl_metadata,        \* what extract_highlight_clips returned
    written,            \* the files this call has written
    raised,             \* None, or the call whose exception left the function
    sl_pc,              \* "idle" | the next call | "return" | "raised"
    \* upload_video(file_path)
    u_db,               \* the rows of the videos table
    u_signature,        \* file_signature of the file
    u_copied,           \* the copy in local_storage exists
    u_tasks,            \* the state of each submitted task
    u_uploaded,         \* the objects the tasks have put in the bucket
    u_result,           \* None, or what the call returned or raised
    u_pc,               \* "idle" | "call" | "collect" | "return"
    \* SequenceScorer and Aggregator (spec 4.6, 4.7, 5)
    submitted,          \* the clip indexes given to the pool
    remote,             \* for each clip, what the remote model ends in
    task_queue,         \* the tasks no worker has taken yet, in submission order
    workers,            \* for each worker: its state, its clip and its score
    collection,         \* the results collection, in order of writing
    aggregated,         \* None, or the result list of the Aggregator
    w_pc                \* "idle" | "scoring" | "done"

mergeVars == <<m_segments, gap_threshold, merged_segments, m_i, m_pc>>

seriesVars == <<scores, hop, excitement_threshold, percentile_threshold>>

fixedVars == <<f_segments, f_start_time, f_i, f_pc>>

pctVars == <<threshold, p_segments, p_start_time, p_i, p_pc>>

findVars == <<seriesVars, fixedVars, pctVars>>

scoreVars == <<high_freq_energy, contrast_mean, rms, excitement_score, s_pc>>

clipVars ==
    <<c_segments, c_i, buffered_start, buffered_end, duration, metadata, files, outcomes, c_pc>>

parseVars == <<text_response, probabilities, prediction, analysis_details, r_pc>>

frameVars == <<max_retries, attempt, attempt_log, requests_sent, waits, analysis>>

seqVars == <<data, results, errors, a_i, delays>>

inspectVars == <<seqVars, frameVars, a_pc>>

selectVars == <<sequences, existing, highlight_files, h_i, h_log>>

stitchVars == <<selectVars, list_file, concat_runs, reel, h_pc>>

framesVars ==
    <<highlight_metadata, clip_files, image_metadata, e_i, e_duration, e_log,
      metadata_file, e_result, e_pc>>

shortlistVars ==
    <<bucket, disk, stages, failed_downloads, exciting_moments, merged_moments,
      sl_metadata, written, raised, sl_pc>>

uploadVars == <<u_db, u_signature, u_copied, u_tasks, u_uploaded, u_result, u_pc>>

poolVars == <<submitted, remote, task_queue, workers, collection, aggregated, w_pc>>

vars ==
    <<mergeVars, findVars, scoreVars, clipVars, parseVars, inspectVars, stitchVars,
      framesVars, shortlistVars, uploadVars, poolVars>>

\* What each function leaves alone.
notMerge ==
    <<findVars, scoreVars, clipVars, parseVars, inspectVars, stitchVars, framesVars,
      shortlistVars, uploadVars, poolVars>>

notFind ==
    <<mergeVars, scoreVars, clipVars, parseVars, inspectVars, stitchVars, framesVars,
      shortlistVars, uploadVars, poolVars>>

notScore ==
    <<mergeVars, findVars, clipVars, parseVars, inspectVars, stitchVars, framesVars,
      shortlistVars, uploadVars, poolVars>>

notClips ==
    <<mergeVars, findVars, scoreVars, parseVars, inspectVars, stitchVars, framesVars,
      shortlistVars, uploadVars, poolVars>>

notParse ==
    <<mergeVars, findVars, scoreVars, clipVars, inspectVars, stitchVars, framesVars,
      shortlistVars, uploadVars, poolVars>>

notInspect ==
    <<mergeVars, findVars, scoreVars, clipVars, parseVars, stitchVars, framesVars,
      shortlistVars, uploadVars, poolVars>>

notStitch ==
    <<mergeVars, findVars, scoreVars, clipVars, parseVars, inspectVars, framesVars,
      shortlistVars, uploadVars, poolVars>>

notFrames ==
    <<mergeVars, findVars, scoreVars, clipVars, parseVars, inspectVars, stitchVars,
      shortlistVars, uploadVars, poolVars>>

notShortlist ==
    <<mergeVars, findVars, scoreVars, clipVars, parseVars, inspectVars, stitchVars,
      framesVars, uploadVars, poolVars>>

notUpload ==
    <<mergeVars, findVars, scoreVars, clipVars, parseVars, inspectVars, stitchVars,
      framesVars, shortlistVars, poolVars>>

notPool ==
    <<mergeVars, findVars, scoreVars, clipVars, parseVars, inspectVars, stitchVars,
      framesVars, shortlistVars, uploadVars>>

------------------------------------------------------------------------------
\* Bounds of the model.
MaxTime == 6
MaxSegs == 3
MaxWindows == 4
MaxFrames == 2
MaxClipTime == 3
MaxClips == 2
NegProbSteps == 4
MaxProbSteps == 24
MaxUnits == 2
MaxSeqs == 3
MaxRetriesArg == 4
MaxEntries == 2
MaxSnapshots == 2
MaxTasks == 3

\* Python's None, and a value that is not None.
None == <<>>
Some(x) == <<x>>

\* Helpers.
Max(a, b) == IF a >= b THEN a ELSE b

Last(s) == s[Len(s)]

SeqsUpTo(S, n) == UNION {[1..k -> S] : k \in 0..n}

\* A segment is a pair <<start, end>>.
Start(seg) == seg[1]
End(seg) == seg[2]

------------------------------------------------------------------------------
\* merge_close_segments: analyzeAudio.py 244-272, analyzeAudio-percentile.py 152-168.

\* The gap thresholds the callers and the documented examples use: 0.5 s and 4.0 s.
GapThresholds == {1, 8}

SegmentPairs == {p \in (0..MaxTime) \X (0..MaxTime) : p[1] < p[2]}

\* Time-ordered inputs: starts do not decrease.
TimeOrdered(s) == \A k \in 1..(Len(s) - 1) : Start(s[k]) <= Start(s[k + 1])

MergeInputs == {s \in SeqsUpTo(SegmentPairs, MaxSegs) : TimeOrdered(s)}

\* `start - last_end <= gap_threshold` (seconds against half seconds).
WithinGapStrict(start, last_end, gap) == 2 * (start - last_end) < gap

WithinGap(start, last_end, gap) == 2 * (start - last_end) <= gap

\* `merged_segments[-1] = (last_start, max(last_end, end))`
ExtendLastTakeNext(merged, end) ==
    [merged EXCEPT ![Len(merged)] = <<Start(Last(merged)), end>>]

ExtendLast(merged, end) ==
    [merged EXCEPT ![Len(merged)] = <<Start(Last(merged)), Max(End(Last(merged)), end)>>]

\* Lines 257-272 as one value: the loop from position k on.
RECURSIVE MergeFrom(_, _, _, _)
MergeFrom(merged, segments, k, gap) ==
    IF k > Len(segments) THEN merged
    ELSE MergeFrom(IF WithinGap(Start(segments[k]), End(Last(merged)), gap)
                   THEN ExtendLast(merged, End(segments[k]))
                   ELSE Append(merged, segments[k]),
                   segments, k + 1, gap)

\* Lines 257-272 as one value: what the call returns.
MergeCloseSegments(segments, gap) ==
    IF segments = <<>> THEN <<>> ELSE MergeFrom(<<segments[1]>>, segments, 2, gap)

IdleMerge ==
    /\ m_segments = <<>>
    /\ gap_threshold = 8
    /\ merged_segments = <<>>
    /\ m_i = 1
    /\ m_pc = "idle"

InitMerge ==
    /\ m_segments \in MergeInputs
    /\ gap_threshold \in GapThresholds
    /\ merged_segments = <<>>
    /\ m_i = 1
    /\ m_pc = "call"

\* Lines 257-260: the empty input returns [] at once, else segments[0] is accepted.
MergeCall ==
    /\ m_pc = "call"
    /\ IF m_segments = <<>>
       THEN /\ merged_segments' = <<>>
            /\ m_pc' = "return"
            /\ m_i' = m_i
       ELSE /\ merged_segments' = <<m_segments[1]>>
            /\ m_pc' = "loop"
            /\ m_i' = 2
    /\ UNCHANGED <<m_segments, gap_threshold, notMerge>>

\* Lines 262-270: one iteration of `for start, end in segments[1:]`.
MergeStep ==
    /\ m_pc = "loop"
    /\ m_i <= Len(m_segments)
    /\ LET start == Start(m_segments[m_i])
           end == End(m_segments[m_i])
           last_end == End(Last(merged_segments))
       IN  merged_segments' =
               IF WithinGap(start, last_end, gap_threshold)
               THEN ExtendLast(merged_segments, end)
               ELSE Append(merged_segments, <<start, end>>)
    /\ m_i' = m_i + 1
    /\ UNCHANGED <<m_segments, gap_threshold, m_pc, notMerge>>

\* Line 272: the loop is exhausted, `return merged_segments`.
MergeReturn ==
    /\ m_pc = "loop"
    /\ m_i > Len(m_segments)
    /\ m_pc' = "return"
    /\ UNCHANGED <<m_segments, gap_threshold, merged_segments, m_i, notMerge>>

NextMerge == MergeCall \/ MergeStep \/ MergeReturn

------------------------------------------------------------------------------
\* AudioExcitementDetector._find_excitement_segments:
\* analyzeAudio.py 88-116 (fixed threshold), analyzeAudio-percentile.py 41-78.

\* self.min_excitement_duration = 1.5 s, in centiseconds.
min_excitement_duration == 150

\* self.excitement_threshold = 0.5 as __init__ sets it, in thousandths.
DefaultExcitementThreshold == 500

ScoreValues == {3, 5, 7}

\* hop_length / sr values: 0.5 s, 0.75 s, 1.49 s and 1.5 s between windows.
HopValues == {50, 75, 149, 150}

PercentileValues == {50, 99}

SeriesInputs == SeqsUpTo(ScoreValues, MaxWindows) \ {<<>>}

\* librosa.times_like(scores, sr, hop_length)[k - 1]: window k is at (k - 1) * hop_length / sr.
TimesLike(k, h) == (k - 1) * h

\* np.sort.
SortedSeq(s) ==
    CHOOSE t \in [1..Len(s) -> {s[k] : k \in 1..Len(s)}] :
        /\ \A k \in 1..(Len(s) - 1) : t[k] <= t[k + 1]
        /\ \A v \in {s[k] : k \in 1..Len(s)} :
              Cardinality({k \in 1..Len(s) : t[k] = v}) = Cardinality({k \in 1..Len(s) : s[k] = v})

\* np.percentile(excitement_score, q), linear interpolation at the virtual index
\* (n - 1) * q / 100, in thousandths.
Percentile(s, q) ==
    LET pos == (Len(s) - 1) * q
        lo == pos \div 100
        frac == pos % 100
        srt == SortedSeq(s)
    IN  IF frac = 0
        THEN 100 * srt[lo + 1]
        ELSE 100 * srt[lo + 1] + frac * (srt[lo + 2] - srt[lo + 1])

IdleFind ==
    /\ scores = <<>>
    /\ hop = 50
    /\ excitement_threshold = DefaultExcitementThreshold
    /\ percentile_threshold = 99
    /\ threshold = None
    /\ f_segments = <<>>
    /\ f_start_time = None
    /\ f_i = 1
    /\ f_pc = "idle"
    /\ p_segments = <<>>
    /\ p_start_time = None
    /\ p_i = 1
    /\ p_pc = "idle"

\* One score series is given to both detectors.  The fixed detector's threshold is
\* its default or has been set to the percentile value of the series.
InitFind ==
    /\ scores \in SeriesInputs
    /\ hop \in HopValues
    /\ percentile_threshold \in PercentileValues
    /\ excitement_threshold \in
          {DefaultExcitementThreshold, Percentile(scores, percentile_threshold)}
    /\ threshold = None
    /\ f_segments = <<>>
    /\ f_start_time = None
    /\ f_i = 1
    /\ f_pc = "call"
    /\ p_segments = <<>>
    /\ p_start_time = None
    /\ p_i = 1
    /\ p_pc = "call"

\* ---- the fixed-threshold detector (analyzeAudio.py)

\* Line 101: `score > self.excitement_threshold`.
AtOrAbove(score, thr) == 100 * score >= thr

Above(score, thr) == 100 * score > thr

\* Lines 107-108: a run closed inside the series is appended if it lasted long enough.
CloseRunAlways(segs, start, time) == Append(segs, <<start, time>>)

CloseRunStrict(segs, start, time) ==
    IF time - start > min_excitement_duration THEN Append(segs, <<start, time>>) ELSE segs

CloseRun(segs, start, time) ==
    IF time - start >= min_excitement_duration THEN Append(segs, <<start, time>>) ELSE segs

\* Lines 112-114: the run still open at the end of the series.
TrailingRunDropped(segs, start_time, last) == segs

TrailingRun(segs, start_time, last) ==
    IF start_time # None
    THEN IF last - start_time[1] >= min_excitement_duration
         THEN Append(segs, <<start_time[1], last>>)
         ELSE segs
    ELSE segs

\* Lines 94-98.
FixedCall ==
    /\ f_pc = "call"
    /\ f_segments' = <<>>
    /\ f_start_time' = None
    /\ f_i' = 1
    /\ f_pc' = "loop"
    /\ UNCHANGED <<seriesVars, pctVars, notFind>>

\* Lines 100-109: one iteration of `for time, score in zip(times, scores)`.
FixedStep ==
    /\ f_pc = "loop"
    /\ f_i <= Len(scores)
    /\ LET time == TimesLike(f_i, hop)
           score == scores[f_i]
       IN  IF Above(score, excitement_threshold)
           THEN /\ f_start_time' = IF f_start_time = None THEN Some(time) ELSE f_start_time
                /\ f_segments' = f_segments
           ELSE IF f_start_time # None
           THEN /\ f_segments' = CloseRun(f_segments, f_start_time[1], time)
                /\ f_start_time' = None
           ELSE UNCHANGED <<f_segments, f_start_time>>
    /\ f_i' = f_i + 1
    /\ UNCHANGED <<f_pc, seriesVars, pctVars, notFind>>

\* Lines 111-116: the loop is exhausted; the open run, `return segments`.
FixedReturn ==
    /\ f_pc = "loop"
    /\ f_i > Len(scores)
    /\ f_segments' = TrailingRun(f_segments, f_start_time, TimesLike(Len(scores), hop))
    /\ f_pc' = "return"
    /\ UNCHANGED <<f_start_time, f_i, seriesVars, pctVars, notFind>>

\* ---- the percentile detector (analyzeAudio-percentile.py)

\* Line 65: `score > threshold`.
PctAtOrAbove(score, thr) == 100 * score >= thr

PctAbove(score, thr) == 100 * score > thr

\* Lines 69-70.
PctCloseRun(segs, start, time) ==
    IF time - start >= min_excitement_duration THEN Append(segs, <<start, time>>) ELSE segs

\* Lines 73-76.
PctTrailingRun(segs, start_time, last) ==
    IF start_time # None /\ last - start_time[1] >= min_excitement_duration
    THEN Append(segs, <<start_time[1], last>>)
    ELSE segs

\* Line 41 of detect_excitement, then lines 60-62.
PctCall ==
    /\ p_pc = "call"
    /\ threshold' = Percentile(scores, percentile_threshold)
    /\ p_segments' = <<>>
    /\ p_start_time' = None
    /\ p_i' = 1
    /\ p_pc' = "loop"
    /\ UNCHANGED <<seriesVars, fixedVars, notFind>>

\* Lines 64-71.
PctStep ==
    /\ p_pc = "loop"
    /\ p_i <= Len(scores)
    /\ LET time == TimesLike(p_i, hop)
           score == scores[p_i]
       IN  IF PctAbove(score, threshold)
           THEN /\ p_start_time' = IF p_start_time = None THEN Some(time) ELSE p_start_time
                /\ p_segments' = p_segments
           ELSE IF p_start_time # None
           THEN /\ p_segments' = PctCloseRun(p_segments, p_start_time[1], time)
                /\ p_start_time' = None
           ELSE UNCHANGED <<p_segments, p_start_time>>
    /\ p_i' = p_i + 1
    /\ UNCHANGED <<threshold, p_pc, seriesVars, fixedVars, notFind>>

\* Lines 73-78.
PctReturn ==
    /\ p_pc = "loop"
    /\ p_i > Len(scores)
    /\ p_segments' = PctTrailingRun(p_segments, p_start_time, TimesLike(Len(scores), hop))
    /\ p_pc' = "return"
    /\ UNCHANGED <<threshold, p_start_time, p_i, seriesVars, fixedVars, notFind>>

NextFind == FixedCall \/ FixedStep \/ FixedReturn \/ PctCall \/ PctStep \/ PctReturn

------------------------------------------------------------------------------
\* AudioExcitementDetector.detect_excitement / _normalize: analyzeAudio.py 60-86
\* (analyzeAudio-percentile.py 35-39, 54-55 are the same computation).
\*
\* A float is a record: nan (the IEEE not-a-number), or the exact rational num / den.

NaN == [nan |-> TRUE, num |-> 0, den |-> 1]

Ratio(n, d) == [nan |-> FALSE, num |-> n, den |-> d]

\* numpy's elementwise true division: 0 / 0 is nan (a RuntimeWarning, no exception).
\* _normalize only divides array - min by max - min, so a zero divisor always
\* meets a zero dividend.
Divide(a, b) == IF b = 0 THEN NaN ELSE Ratio(a, b)

SeqMin(a) == CHOOSE v \in {a[k] : k \in 1..Len(a)} : \A k \in 1..Len(a) : v <= a[k]

SeqMax(a) == CHOOSE v \in {a[k] : k \in 1..Len(a)} : \A k \in 1..Len(a) : v >= a[k]

\* Lines 84-86: `(array - min_val) / (max_val - min_val)`.
Normalize(array) ==
    LET min_val == SeqMin(array)
        max_val == SeqMax(array)
    IN  [k \in 1..Len(array) |-> Divide(array[k] - min_val, max_val - min_val)]

\* Lines 61-65: 0.4 * a + 0.3 * b + 0.3 * c on floats; nan propagates.
Weighted(a, b, c) ==
    IF a.nan \/ b.nan \/ c.nan
    THEN NaN
    ELSE Ratio(4 * a.num * b.den * c.den + 3 * b.num * a.den * c.den + 3 * c.num * a.den * b.den,
               10 * a.den * b.den * c.den)

SignalValues == {-1, 0, 2}

IdleScore ==
    /\ high_freq_energy = <<>>
    /\ contrast_mean = <<>>
    /\ rms = <<>>
    /\ excitement_score = <<>>
    /\ s_pc = "idle"

\* The three raw signals have one value per window of the same audio.
InitScore ==
    /\ \E n \in 1..MaxFrames :
          /\ high_freq_energy \in [1..n -> SignalValues]
          /\ contrast_mean \in [1..n -> SignalValues]
          /\ rms \in [1..n -> SignalValues]
    /\ excitement_score = <<>>
    /\ s_pc = "call"

\* Lines 60-65.
CombineScore ==
    /\ s_pc = "call"
    /\ excitement_score' =
          [k \in 1..Len(rms) |->
              Weighted(Normalize(high_freq_energy)[k],
                       Normalize(contrast_mean)[k],
                       Normalize(rms)[k])]
    /\ s_pc' = "scored"
    /\ UNCHANGED <<high_freq_energy, contrast_mean, rms, notScore>>

NextScore == CombineScore

------------------------------------------------------------------------------
\* extract_highlight_clips: analyzeAudio.py 135-241.

TempFile(i) == <<"temp", i>>

OutputFile(i) == <<"highlight", i>>

ClipPairs == {p \in (0..MaxClipTime) \X (0..MaxClipTime) : p[1] < p[2]}

\* Line 155: `buffered_start = max(0, start - 2)`.
BufferedStartUnclamped(start) == start - 2

BufferedStart(start) == Max(0, start - 2)

\* Line 156: `buffered_end = end + 2`.
BufferedEnd(end) == end + 2

\* Lines 220-221: the intermediate file is removed after the second pass.
KeepTemp(fs, i) == fs

RemoveTemp(fs, i) == fs \ {TempFile(i)}

\* Lines 237-238: the intermediate file is removed in the exception handler.
ExceptKeepTemp(fs, i) == fs

ExceptRemoveTemp(fs, i) == fs \ {TempFile(i)}

\* Line 239: `continue`.
AfterExceptBreak == "return"

AfterExcept == "iter"

\* Lines 225-231.
ClipRecord(i, start, end) ==
    [start_time |-> start, end_time |-> end, highlight_file |-> i]

IdleClips ==
    /\ c_segments = <<>>
    /\ c_i = 1
    /\ buffered_start = 0
    /\ buffered_end = 0
    /\ duration = 0
    /\ metadata = <<>>
    /\ files = {}
    /\ outcomes = <<>>
    /\ c_pc = "idle"

\* output_dir is new, or still holds the intermediate files of an interrupted run.
InitClips ==
    /\ c_segments \in SeqsUpTo(ClipPairs, MaxClips)
    /\ c_i = 1
    /\ buffered_start = 0
    /\ buffered_end = 0
    /\ duration = 0
    /\ metadata = <<>>
    /\ files \in {{}, {TempFile(k) : k \in 1..Len(c_segments)}}
    /\ outcomes = <<>>
    /\ c_pc = "iter"

\* Lines 153-163: the next (i, (start, end)) of the loop.
ClipIterate ==
    /\ c_pc = "iter"
    /\ c_i <= Len(c_segments)
    /\ LET start == Start(c_segments[c_i])
           end == End(c_segments[c_i])
       IN  /\ buffered_start' = BufferedStart(start)
           /\ buffered_end' = BufferedEnd(end)
           /\ duration' = BufferedEnd(end) - BufferedStart(start)
    /\ c_pc' = "first_pass"
    /\ UNCHANGED <<c_segments, c_i, metadata, files, outcomes, notClips>>

\* Lines 210-212: ffmpeg exits 0 and has written the intermediate file.
FirstPassOk ==
    /\ c_pc = "first_pass"
    /\ files' = files \cup {TempFile(c_i)}
    /\ c_pc' = "second_pass"
    /\ UNCHANGED <<c_segments, c_i, buffered_start, buffered_end, duration, metadata,
                   outcomes, notClips>>

\* Lines 210-212: ffmpeg exits non-zero (CalledProcessError); it may have left a
\* partial intermediate file or none.
FirstPassFail ==
    /\ c_pc = "first_pass"
    /\ \E left \in BOOLEAN :
          files' = IF left THEN files \cup {TempFile(c_i)} ELSE files \ {TempFile(c_i)}
    /\ outcomes' = Append(outcomes, "first_pass_failed")
    /\ c_pc' = "except"
    /\ UNCHANGED <<c_segments, c_i, buffered_start, buffered_end, duration, metadata, notClips>>

\* Lines 215-217: ffmpeg exits 0 and has written the clip.
SecondPassOk ==
    /\ c_pc = "second_pass"
    /\ files' = files \cup {OutputFile(c_i)}
    /\ outcomes' = Append(outcomes, "ok")
    /\ c_pc' = "cleanup"
    /\ UNCHANGED <<c_segments, c_i, buffered_start, buffered_end, duration, metadata, notClips>>

\* Lines 215-217: ffmpeg exits non-zero; it may have left a partial clip or none.
SecondPassFail ==
    /\ c_pc = "second_pass"
    /\ \E left \in BOOLEAN :
          files' = IF left THEN files \cup {OutputFile(c_i)} ELSE files
    /\ outcomes' = Append(outcomes, "second_pass_failed")
    /\ c_pc' = "except"
    /\ UNCHANGED <<c_segments, c_i, buffered_start, buffered_end, duration, metadata, notClips>>

\* Lines 219-231: remove the intermediate file, append the record.
ClipCleanup ==
    /\ c_pc = "cleanup"
    /\ files' = RemoveTemp(files, c_i)
    /\ metadata' = Append(metadata,
                          ClipRecord(c_i, Start(c_segments[c_i]), End(c_segments[c_i])))
    /\ c_i' = c_i + 1
    /\ c_pc' = "iter"
    /\ UNCHANGED <<c_segments, buffered_start, buffered_end, duration, outcomes, notClips>>

\* Lines 233-239: the handler of CalledProcessError.
ClipExcept ==
    /\ c_pc = "except"
    /\ files' = ExceptRemoveTemp(files, c_i)
    /\ c_i' = c_i + 1
    /\ c_pc' = AfterExcept
    /\ UNCHANGED <<c_segments, buffered_start, buffered_end, duration, metadata, outcomes,
                   notClips>>

\* Line 241: the loop is exhausted, `return metadata`.
ClipReturn ==
    /\ c_pc = "iter"
    /\ c_i > Len(c_segments)
    /\ c_pc' = "return"
    /\ UNCHANGED <<c_segments, c_i, buffered_start, buffered_end, duration, metadata, files,
                   outcomes, notClips>>

NextClips ==
    \/ ClipIterate
    \/ FirstPassOk
    \/ FirstPassFail
    \/ SecondPassOk
    \/ SecondPassFail
    \/ ClipCleanup
    \/ ClipExcept
    \/ ClipReturn

------------------------------------------------------------------------------
\* HighlightInspector.parse_model_response: highlightsInspector.py 76-155.
\*
\* A response text is a record: blank (empty or white space only), and values,
\* what lines 84-96 read from it for each category: Some(v) for the number v
\* (hundredths) of its last line `category: v ...`, None when no line of the
\* text gives the category a number.

Categories == {"short_clip", "long_clip", "unimportant"}

\* The numbers a text may give: -0.20, -0.15, ..., 1.20.
ProbValues == {5 * k : k \in (0 - NegProbSteps)..MaxProbSteps}

TextOf(s, l, u) ==
    [blank |-> FALSE, values |-> [short_clip |-> s, long_clip |-> l, unimportant |-> u]]

BlankText == [blank |-> TRUE, values |-> [c \in Categories |-> None]]

\* A text that says something but has none of the expected lines.
NoLinesText == TextOf(None, None, None)

ParsedTexts ==
    {TextOf(s, l, u) : s \in {None} \cup {Some(v) : v \in ProbValues},
                       l \in {None} \cup {Some(v) : v \in ProbValues},
                       u \in {None} \cup {Some(v) : v \in ProbValues}}

Probs(s, l, u, d) == [short_clip |-> s, long_clip |-> l, unimportant |-> u, den |-> d]

\* Lines 105-109 and 146: everything on `unimportant`.
DefaultProbs == Probs(0, 0, 100, 100)

Abs(x) == IF x >= 0 THEN x ELSE 0 - x

\* Lines 80-96: 0.0 for each category, overwritten by the numbers of the text.
ExtractProbabilities(text) ==
    LET val(c) == IF text.values[c] = None THEN 0 ELSE text.values[c][1]
    IN  Probs(val("short_clip"), val("long_clip"), val("unimportant"), 100)

\* Line 99: `sum(probabilities.values())`, in units of 1 / den.
Total(p) == p.short_clip + p.long_clip + p.unimportant

\* Line 100: `abs(total - 1.0) > 0.1`.
Deviates(p) == 10 * Abs(Total(p) - p.den) > p.den

\* Lines 100-109: v / total for each v when the sum deviates and is positive,
\* the default when it deviates and is not positive.
NormalizeProbabilities(p) ==
    IF Deviates(p)
    THEN IF Total(p) > 0 THEN [p EXCEPT !.den = Total(p)] ELSE DefaultProbs
    ELSE p

\* Line 113.
MaxProb(p) == Max(p.short_clip, Max(p.long_clip, p.unimportant))

\* Line 114: max over the items in dict order returns the first largest.
MaxCategory(p) ==
    IF p.short_clip = MaxProb(p) THEN "short_clip"
    ELSE IF p.long_clip = MaxProb(p) THEN "long_clip"
    ELSE "unimportant"

\* Line 115: `sorted(probabilities.values())[-2]`, the middle one of the three.
SecondHighest(p) ==
    LET a == p.short_clip
        b == p.long_clip
        c == p.unimportant
    IN  (a + b + c) - MaxProb(p) - (IF a <= b /\ a <= c THEN a ELSE IF b <= c THEN b ELSE c)

\* Line 116.
Margin(p) == MaxProb(p) - SecondHighest(p)

ClassifyArgmax(p) == MaxCategory(p)

\* Lines 119-130.
Classify(p) ==
    IF MaxCategory(p) = "short_clip"
    THEN IF 10 * MaxProb(p) >= 6 * p.den /\ 10 * Margin(p) >= 2 * p.den
         THEN "short_clip" ELSE "unimportant"
    ELSE IF MaxCategory(p) = "long_clip"
    THEN IF 100 * MaxProb(p) >= 50 * p.den /\ 100 * Margin(p) >= 15 * p.den
         THEN "long_clip" ELSE "unimportant"
    ELSE "unimportant"

\* Lines 132-138; confidence and margin in units of 1 / den of the probabilities.
AnalysisDetails(raw, p) ==
    [action_detected |-> 10 * MaxProb(p) > 3 * p.den,
     key_moment |-> 10 * p.short_clip > 4 * p.den,
     confidence |-> MaxProb(p),
     margin |-> Margin(p),
     normalized |-> Deviates(raw)]

\* Lines 80-140 as one value: what the call returns for a text.  The handler of
\* lines 142-155 has nothing to catch: the number parsing has its own handler
\* and the division is guarded by total > 0.
ParseModelResponse(text) ==
    LET raw == ExtractProbabilities(text)
        p == NormalizeProbabilities(raw)
    IN  [prediction |-> Classify(p), probabilities |-> p,
         analysis_details |-> AnalysisDetails(raw, p)]

IdleParse ==
    /\ text_response = BlankText
    /\ probabilities = Probs(0, 0, 0, 100)
    /\ prediction = None
    /\ analysis_details = None
    /\ r_pc = "idle"

InitParse ==
    /\ text_response \in ParsedTexts
    /\ probabilities = Probs(0, 0, 0, 100)
    /\ prediction = None
    /\ analysis_details = None
    /\ r_pc = "call"

\* Lines 80-96.
ParseExtract ==
    /\ r_pc = "call"
    /\ probabilities' = ExtractProbabilities(text_response)
    /\ r_pc' = "extracted"
    /\ UNCHANGED <<text_response, prediction, analysis_details, notParse>>

\* Lines 98-109.
ParseNormalize ==
    /\ r_pc = "extracted"
    /\ probabilities' = NormalizeProbabilities(probabilities)
    /\ r_pc' = "normalized"
    /\ UNCHANGED <<text_response, prediction, analysis_details, notParse>>

\* Lines 111-140.
ParseClassify ==
    /\ r_pc = "normalized"
    /\ prediction' = Classify(probabilities)
    /\ analysis_details' =
          AnalysisDetails(ExtractProbabilities(text_response), probabilities)
    /\ r_pc' = "return"
    /\ UNCHANGED <<text_response, probabilities, notParse>>

NextParse == ParseExtract \/ ParseNormalize \/ ParseClassify

------------------------------------------------------------------------------
\* HighlightInspector.analyze_frame, error_response, analyze_sequence:
\* highlightsInspector.py 157-319.

\* Line 157: the default of the parameter, which analyze_sequence leaves alone.
DefaultMaxRetries == 3

\* What one attempt can meet, in the order of lines 165-195:
\*   "no_image"       encode_image raises FileNotFoundError (line 165)
\*   TransportFailures  requests.post or raise_for_status raises a
\*                    RequestException (lines 180-183)
\*   "invalid_json"   response.json() raises JSONDecodeError (lines 186, 193-195)
\*   "not_an_object"  the JSON is no object with a text under "response":
\*                    .get or .strip raises AttributeError (lines 189-190)
\*   a text           the "response" member, "" when it is absent (line 189)
TransportFailures == {"connection_error", "timeout", "http_error"}

FrameTexts ==
    {BlankText, NoLinesText,
     TextOf(Some(70), None, None), TextOf(Some(80), Some(10), Some(10))}

NeverEmpty(text) == FALSE

\* Line 190: `not text_response.strip()`.
IsEmptyResponse(text) == text.blank

\* What the log keeps of an attempt that got a text.
Got(text) == IF IsEmptyResponse(text) THEN "empty_response" ELSE "text"

RetryNever(a) == FALSE

\* Line 213: `attempt < max_retries - 1`.
RetryAllowed(a) == a < max_retries - 1

BackoffWaitPlain(a) == 2 ^ a

\* Line 214: `(2**attempt) * 2`, in seconds.
BackoffWait(a) == (2 ^ a) * 2

UnexpectedAsExceeded == "max_retries_exceeded"

\* Line 225: the error type the last handler passes to error_response.
UnexpectedStatus == "error"

\* Lines 203-209.
SuccessResponse(text) ==
    LET parsed == ParseModelResponse(text)
    IN  [highlight_type |-> parsed.prediction,
         probabilities |-> parsed.probabilities,
         analysis_details |-> parsed.analysis_details,
         raw_response |-> Some(text),
         status |-> "success",
         error_message |-> None]

\* error_response, lines 227-238; the message is kept as the failure it reports.
ErrorResponse(error_type, message) ==
    [highlight_type |-> "error",
     probabilities |-> Probs(0, 0, 0, 100),
     analysis_details |-> None,
     raw_response |-> None,
     status |-> error_type,
     error_message |-> Some(message)]

\* Line 250: the entries of the input file.  Image k stands for the k-th frame
\* file; no two entries name the same one.
Entry(k) == [timestamp |-> k, image_path |-> k]

DataInputs ==
    {d \in SeqsUpTo({Entry(k) : k \in 1..MaxUnits}, MaxUnits) :
        \A x, y \in 1..Len(d) : x # y => d[x] # d[y]}

IdleInspect ==
    /\ data = <<>>
    /\ results = <<>>
    /\ errors = <<>>
    /\ a_i = 1
    /\ delays = 0
    /\ max_retries = DefaultMaxRetries
    /\ attempt = 0
    /\ attempt_log = <<>>
    /\ requests_sent = 0
    /\ waits = <<>>
    /\ analysis = None
    /\ a_pc = "idle"

\* Lines 250-255.
InitInspect ==
    /\ data \in DataInputs
    /\ results = <<>>
    /\ errors = <<>>
    /\ a_i = 1
    /\ delays = 0
    /\ max_retries = DefaultMaxRetries
    /\ attempt = 0
    /\ attempt_log = <<>>
    /\ requests_sent = 0
    /\ waits = <<>>
    /\ analysis = None
    /\ a_pc = "seq_iter"

\* Lines 257-266 and 159: the next entry, the delay between frames, and the
\* entry into analyze_frame.
SeqIterate ==
    /\ a_pc = "seq_iter"
    /\ a_i <= Len(data)
    /\ delays' = IF a_i > 1 THEN delays + 1 ELSE delays
    /\ max_retries' = DefaultMaxRetries
    /\ attempt' = 0
    /\ attempt_log' = <<>>
    /\ requests_sent' = 0
    /\ waits' = <<>>
    /\ analysis' = None
    /\ a_pc' = "attempt"
    /\ UNCHANGED <<data, results, errors, a_i, notInspect>>

\* Lines 160-209: the attempt gets a text that is not empty.
AttemptSucceeds ==
    /\ a_pc = "attempt"
    /\ \E text \in FrameTexts :
          /\ ~IsEmptyResponse(text)
          /\ attempt_log' = Append(attempt_log, Got(text))
          /\ analysis' = SuccessResponse(text)
    /\ requests_sent' = requests_sent + 1
    /\ a_pc' = "frame_return"
    /\ UNCHANGED <<attempt, waits, max_retries, seqVars, notInspect>>

\* Line 211: what the retry handler catches.  A RequestException of lines
\* 180-183, the ValueError of line 195 for a body that is no JSON, and the
\* ValueError of line 191 for an empty text.
RequestFailures ==
    TransportFailures \cup {"invalid_json"}
        \cup {Got(text) : text \in {t \in FrameTexts : IsEmptyResponse(t)}}

\* Lines 160-195 and 211-216: the attempt fails in a way the retry handler
\* catches, and another attempt is left.
AttemptFailsRetry ==
    /\ a_pc = "attempt"
    /\ RetryAllowed(attempt)
    /\ \E failure \in RequestFailures :
          attempt_log' = Append(attempt_log, failure)
    /\ requests_sent' = requests_sent + 1
    /\ waits' = Append(waits, BackoffWait(attempt))
    /\ attempt' = attempt + 1
    /\ UNCHANGED <<analysis, a_pc, max_retries, seqVars, notInspect>>

\* Lines 160-195, 211-212 and 217-221: the same in the last attempt.
AttemptFailsLast ==
    /\ a_pc = "attempt"
    /\ ~RetryAllowed(attempt)
    /\ \E failure \in RequestFailures :
          /\ attempt_log' = Append(attempt_log, failure)
          /\ analysis' = ErrorResponse("max_retries_exceeded", failure)
    /\ requests_sent' = requests_sent + 1
    /\ a_pc' = "frame_return"
    /\ UNCHANGED <<attempt, waits, max_retries, seqVars, notInspect>>

\* Lines 165 and 223-225: the image cannot be read; no request is sent.
AttemptNoImage ==
    /\ a_pc = "attempt"
    /\ attempt_log' = Append(attempt_log, "no_image")
    /\ analysis' = ErrorResponse(UnexpectedStatus, "no_image")
    /\ a_pc' = "frame_return"
    /\ UNCHANGED <<attempt, requests_sent, waits, max_retries, seqVars, notInspect>>

\* Lines 180-190 and 223-225: the answer is JSON of another shape.
AttemptNotAnObject ==
    /\ a_pc = "attempt"
    /\ attempt_log' = Append(attempt_log, "not_an_object")
    /\ analysis' = ErrorResponse(UnexpectedStatus, "not_an_object")
    /\ requests_sent' = requests_sent + 1
    /\ a_pc' = "frame_return"
    /\ UNCHANGED <<attempt, waits, max_retries, seqVars, notInspect>>

CollectedIfSuccess(rs, entry, a) ==
    IF a.status = "success"
    THEN Append(rs, [timestamp |-> entry.timestamp, image_path |-> entry.image_path,
                     analysis |-> a])
    ELSE rs

\* Lines 282-284: `results.append({timestamp, image_path, **analysis})`.
Collected(rs, entry, a) ==
    Append(rs, [timestamp |-> entry.timestamp, image_path |-> entry.image_path,
                analysis |-> a])

\* Lines 268-284: the rest of the loop body.
SeqCollect ==
    /\ a_pc = "frame_return"
    /\ a_i <= Len(data)
    /\ errors' = IF analysis.status = "success" THEN errors ELSE Append(errors, a_i)
    /\ results' = Collected(results, data[a_i], analysis)
    /\ a_i' = a_i + 1
    /\ a_pc' = "seq_iter"
    /\ UNCHANGED <<data, delays, frameVars, notInspect>>

\* Line 257: the loop is over.
SeqLoopEnd ==
    /\ a_pc = "seq_iter"
    /\ a_i > Len(data)
    /\ a_pc' = "write"
    /\ UNCHANGED <<seqVars, frameVars, notInspect>>

\* Lines 286-315: the output file is written and the lists are returned.
SeqWriteReturn ==
    /\ a_pc = "write"
    /\ a_pc' = "return"
    /\ UNCHANGED <<seqVars, frameVars, notInspect>>

\* Lines 307-311 and 317-319: the output cannot be written; the error is raised.
SeqWriteRaise ==
    /\ a_pc = "write"
    /\ a_pc' = "raised"
    /\ UNCHANGED <<seqVars, frameVars, notInspect>>

\* A call of analyze_frame by itself, with max_retries given (line 157).
InitAnalyzeFrame ==
    /\ data = <<>>
    /\ results = <<>>
    /\ errors = <<>>
    /\ a_i = 1
    /\ delays = 0
    /\ max_retries \in 1..MaxRetriesArg
    /\ attempt = 0
    /\ attempt_log = <<>>
    /\ requests_sent = 0
    /\ waits = <<>>
    /\ analysis = None
    /\ a_pc = "attempt"

NextAnalyzeFrame ==
    \/ AttemptSucceeds
    \/ AttemptFailsRetry
    \/ AttemptFailsLast
    \/ AttemptNoImage
    \/ AttemptNotAnObject

NextInspect ==
    \/ SeqIterate
    \/ AttemptSucceeds
    \/ AttemptFailsRetry
    \/ AttemptFailsLast
    \/ AttemptNoImage
    \/ AttemptNotAnObject
    \/ SeqCollect
    \/ SeqLoopEnd
    \/ SeqWriteReturn
    \/ SeqWriteRaise

------------------------------------------------------------------------------
\* highlightStitcher.py: get_highlight_files 26-51, stitch_highlights 54-88,
\* called one after the other by lines 103-110.

\* The highlight_probability of an entry: a number (hundredths), or something
\* float() raises ValueError or TypeError for.
Readable(v) == [readable |-> TRUE, value |-> v]

Unreadable == [readable |-> FALSE, value |-> 0]

ProbabilityFields == {Readable(v) : v \in {0, 40, 50, 60, 90}} \cup {Unreadable}

\* The sequences of the analysis file: one entry per clip number, in ascending
\* order of clip number, as the aggregator writes them.
SequenceInputs ==
    {q \in SeqsUpTo([highlight_num : 1..MaxSeqs, highlight_probability : ProbabilityFields],
                    MaxSeqs) :
        \A x \in 1..(Len(q) - 1) : q[x].highlight_num < q[x + 1].highlight_num}

QualifiesStrict(v) == v > 50

\* Line 42: `highlight_probability >= 0.5`.
Qualifies(v) == v >= 50

FileAssumed(n, ex) == TRUE

\* Line 45: `os.path.exists(file_path)` for highlight_<n>.mp4.
FileExists(n, ex) == n \in ex

NeverNothing(fs) == FALSE

\* Line 62: `not highlight_files`.
NothingToStitch(fs) == fs = <<>>

IdleStitch ==
    /\ sequences = <<>>
    /\ existing = {}
    /\ highlight_files = <<>>
    /\ h_i = 1
    /\ h_log = <<>>
    /\ list_file = FALSE
    /\ concat_runs = <<>>
    /\ reel = None
    /\ h_pc = "idle"

\* Lines 104-107 and 37: the sequences are read (none when the file is
\* missing) and the selection starts.
InitStitch ==
    /\ sequences \in SequenceInputs
    /\ existing \in SUBSET (1..MaxSeqs)
    /\ highlight_files = <<>>
    /\ h_i = 1
    /\ h_log = <<>>
    /\ list_file = FALSE
    /\ concat_runs = <<>>
    /\ reel = None
    /\ h_pc = "select"

\* Lines 38-46: the entry qualifies and its file exists.
SelectAppend ==
    /\ h_pc = "select"
    /\ h_i <= Len(sequences)
    /\ sequences[h_i].highlight_probability.readable
    /\ Qualifies(sequences[h_i].highlight_probability.value)
    /\ FileExists(sequences[h_i].highlight_num, existing)
    /\ highlight_files' = Append(highlight_files, sequences[h_i].highlight_num)
    /\ h_i' = h_i + 1
    /\ UNCHANGED <<sequences, existing, h_log, list_file, concat_runs, reel, h_pc, notStitch>>

\* Lines 38-45 and 47-48: the entry qualifies and its file is missing.
SelectWarnMissing ==
    /\ h_pc = "select"
    /\ h_i <= Len(sequences)
    /\ sequences[h_i].highlight_probability.readable
    /\ Qualifies(sequences[h_i].highlight_probability.value)
    /\ ~FileExists(sequences[h_i].highlight_num, existing)
    /\ h_log' = Append(h_log, [warning |-> "missing_file", at |-> h_i])
    /\ h_i' = h_i + 1
    /\ UNCHANGED <<sequences, existing, highlight_files, list_file, concat_runs, reel,
                   h_pc, notStitch>>

\* Lines 38-42: the entry does not qualify.
SelectSkip ==
    /\ h_pc = "select"
    /\ h_i <= Len(sequences)
    /\ sequences[h_i].highlight_probability.readable
    /\ ~Qualifies(sequences[h_i].highlight_probability.value)
    /\ h_i' = h_i + 1
    /\ UNCHANGED <<sequences, existing, highlight_files, h_log, list_file, concat_runs,
                   reel, h_pc, notStitch>>

\* Lines 38-40 and 49-50: float() raises, the handler prints the entry.
SelectUnreadable ==
    /\ h_pc = "select"
    /\ h_i <= Len(sequences)
    /\ ~sequences[h_i].highlight_probability.readable
    /\ h_log' = Append(h_log, [warning |-> "unreadable", at |-> h_i])
    /\ h_i' = h_i + 1
    /\ UNCHANGED <<sequences, existing, highlight_files, list_file, concat_runs, reel,
                   h_pc, notStitch>>

\* Lines 51 and 110: the list is returned and handed to stitch_highlights.
SelectReturn ==
    /\ h_pc = "select"
    /\ h_i > Len(sequences)
    /\ h_pc' = "stitch"
    /\ UNCHANGED <<selectVars, list_file, concat_runs, reel, notStitch>>

\* Lines 62-64.
StitchNothing ==
    /\ h_pc = "stitch"
    /\ NothingToStitch(highlight_files)
    /\ h_pc' = "return"
    /\ UNCHANGED <<selectVars, list_file, concat_runs, reel, notStitch>>

\* Lines 68-71: the list file is written.
StitchWriteList ==
    /\ h_pc = "stitch"
    /\ ~NothingToStitch(highlight_files)
    /\ list_file' = TRUE
    /\ h_pc' = "concat"
    /\ UNCHANGED <<selectVars, concat_runs, reel, notStitch>>

\* Lines 68-69 and 87-88: the list file cannot be opened for writing.
StitchWriteListFails ==
    /\ h_pc = "stitch"
    /\ ~NothingToStitch(highlight_files)
    /\ h_pc' = "return"
    /\ UNCHANGED <<selectVars, list_file, concat_runs, reel, notStitch>>

\* Lines 74-86: ffmpeg concatenates the listed clips; the list file is removed.
StitchConcat ==
    /\ h_pc = "concat"
    /\ concat_runs' = Append(concat_runs, highlight_files)
    /\ reel' = Some(highlight_files)
    /\ list_file' = FALSE
    /\ h_pc' = "return"
    /\ UNCHANGED <<selectVars, notStitch>>

\* Lines 74-86: ffmpeg exits with an error, which line 82 does not look at.
StitchConcatFails ==
    /\ h_pc = "concat"
    /\ concat_runs' = Append(concat_runs, highlight_files)
    /\ list_file' = FALSE
    /\ h_pc' = "return"
    /\ UNCHANGED <<selectVars, reel, notStitch>>

\* Lines 82 and 87-88: ffmpeg cannot be started; the list file stays.
StitchNoFfmpeg ==
    /\ h_pc = "concat"
    /\ h_pc' = "return"
    /\ UNCHANGED <<selectVars, list_file, concat_runs, reel, notStitch>>

NextStitch ==
    \/ SelectAppend
    \/ SelectWarnMissing
    \/ SelectSkip
    \/ SelectUnreadable
    \/ SelectReturn
    \/ StitchNothing
    \/ StitchWriteList
    \/ StitchWriteListFails
    \/ StitchConcat
    \/ StitchConcatFails
    \/ StitchNoFfmpeg

------------------------------------------------------------------------------
\* analyzeImages.py: get_video_duration_ffprobe 21-46, take_snapshots_efficient
\* 49-117, extract_frames 121-178.

\* The entries of the clip metadata file.  extract_highlight_clips writes one
\* record per extracted clip, with the clip's number in highlight_file, in
\* ascending order of number; an entry may also lack a key.
LacksStartTime(i) == [end_time |-> i, highlight_file |-> i]

LacksHighlightFile(i) == [start_time |-> i - 1, end_time |-> i]

EntriesFor(i) == {ClipRecord(i, i - 1, i), LacksStartTime(i), LacksHighlightFile(i)}

RECURSIVE MetadataFrom(_)
MetadataFrom(i) ==
    IF i > MaxEntries THEN {<<>>}
    ELSE LET rest == MetadataFrom(i + 1)
         IN  rest \cup {<<e>> \o r : e \in EntriesFor(i), r \in rest}

MetadataInputs == MetadataFrom(1)

\* Lines 143-146: the subscripts `entry["start_time"]`, `entry["highlight_file"]`.
WellFormed(entry) == {"start_time", "highlight_file"} \subseteq DOMAIN entry

\* What the ffprobe run of lines 26-40 ends in: the timeout, or its output.
ProbeOutputs ==
    {[kind |-> k, value |-> 0] : k \in {"timeout", "empty", "non_numeric"}}
        \cup {[kind |-> "number", value |-> v] : v \in 0..1}

\* Lines 41-46: the number printed, 0.0 for no output, a ValueError or a timeout.
GetVideoDurationFfprobe(p) == IF p.kind = "number" THEN p.value ELSE 0

InvalidDurationNever(d) == FALSE

\* Line 154: `duration == 0`.
InvalidDuration(d) == d = 0

\* Line 164: `image_metadata[str(start_time)] = snapshots`, the snapshots being
\* highlight_<clip_index>_1.jpg ... highlight_<clip_index>_<frames>.jpg.
PutSnapshots(dict, start_time, clip_index, frames) ==
    {r \in dict : r.key # start_time}
        \cup {[key |-> start_time, clip_index |-> clip_index, frames |-> frames]}

\* An entry of the log: what was done with the entry at a position.
Logged(event, probe, probed, frames) ==
    [event |-> event, probe |-> probe, duration |-> probed, frames |-> frames]

IdleExtractFrames ==
    /\ highlight_metadata = <<>>
    /\ clip_files = {}
    /\ image_metadata = {}
    /\ e_i = 1
    /\ e_duration = 0
    /\ e_log = <<>>
    /\ metadata_file = None
    /\ e_result = None
    /\ e_pc = "idle"

\* Lines 125-134: the clip metadata has been read ([] when the file is missing).
InitExtractFrames ==
    /\ highlight_metadata \in MetadataInputs
    /\ clip_files \in SUBSET (1..MaxEntries)
    /\ image_metadata = {}
    /\ e_i = 1
    /\ e_duration = 0
    /\ e_log = <<>>
    /\ metadata_file = None
    /\ e_result = None
    /\ e_pc = "call"

\* Lines 135-140.
FramesCall ==
    /\ e_pc = "call"
    /\ IF highlight_metadata = <<>>
       THEN e_result' = Some(FALSE) /\ e_pc' = "return"
       ELSE e_result' = e_result /\ e_pc' = "loop"
    /\ UNCHANGED <<highlight_metadata, clip_files, image_metadata, e_i, e_duration, e_log,
                   metadata_file, notFrames>>

\* Lines 143-146 and 176-178: a subscript raises KeyError, which only the
\* handler around the whole function catches.
FramesKeyError ==
    /\ e_pc = "loop"
    /\ e_i <= Len(highlight_metadata)
    /\ ~WellFormed(highlight_metadata[e_i])
    /\ e_log' = Append(e_log, Logged("key_error", "not_run", 0, 0))
    /\ e_result' = Some(FALSE)
    /\ e_pc' = "return"
    /\ UNCHANGED <<highlight_metadata, clip_files, image_metadata, e_i, e_duration,
                   metadata_file, notFrames>>

\* Lines 143-150: the clip file does not exist.
FramesMissingFile ==
    /\ e_pc = "loop"
    /\ e_i <= Len(highlight_metadata)
    /\ WellFormed(highlight_metadata[e_i])
    /\ highlight_metadata[e_i].highlight_file \notin clip_files
    /\ e_log' = Append(e_log, Logged("missing_file", "not_run", 0, 0))
    /\ e_i' = e_i + 1
    /\ UNCHANGED <<highlight_metadata, clip_files, image_metadata, e_duration,
                   metadata_file, e_result, e_pc, notFrames>>

\* Lines 143-156: the duration is probed; an invalid one skips the clip.
FramesProbe ==
    /\ e_pc = "loop"
    /\ e_i <= Len(highlight_metadata)
    /\ WellFormed(highlight_metadata[e_i])
    /\ highlight_metadata[e_i].highlight_file \in clip_files
    /\ \E p \in ProbeOutputs :
          /\ e_duration' = GetVideoDurationFfprobe(p)
          /\ e_log' = Append(e_log, Logged("probed", p.kind, GetVideoDurationFfprobe(p), 0))
          /\ IF InvalidDuration(GetVideoDurationFfprobe(p))
             THEN e_i' = e_i + 1 /\ e_pc' = "loop"
             ELSE e_i' = e_i /\ e_pc' = "snapshots"
    /\ UNCHANGED <<highlight_metadata, clip_files, image_metadata, metadata_file,
                   e_result, notFrames>>

\* Lines 153, 26 and 176-178: ffprobe cannot be started; the OSError is none of
\* the exceptions line 43 catches.
FramesProbeRaises ==
    /\ e_pc = "loop"
    /\ e_i <= Len(highlight_metadata)
    /\ WellFormed(highlight_metadata[e_i])
    /\ highlight_metadata[e_i].highlight_file \in clip_files
    /\ e_log' = Append(e_log, Logged("probe_raised", "not_started", 0, 0))
    /\ e_result' = Some(FALSE)
    /\ e_pc' = "return"
    /\ UNCHANGED <<highlight_metadata, clip_files, image_metadata, e_i, e_duration,
                   metadata_file, notFrames>>

\* Lines 158-164: the snapshots are taken; none (ffmpeg fails, times out or
\* writes no frame) leaves the dict as it is.
FramesSnapshots ==
    /\ e_pc = "snapshots"
    /\ \E frames \in 0..MaxSnapshots :
          /\ image_metadata' =
                IF frames > 0
                THEN PutSnapshots(image_metadata, highlight_metadata[e_i].start_time,
                                  e_i, frames)
                ELSE image_metadata
          /\ e_log' = [e_log EXCEPT ![e_i] = Logged("snapshots", e_log[e_i].probe, e_log[e_i].duration,
                                                   frames)]
    /\ e_i' = e_i + 1
    /\ e_pc' = "loop"
    /\ UNCHANGED <<highlight_metadata, clip_files, e_duration, metadata_file, e_result,
                   notFrames>>

\* Lines 166-171: the loop is over, the dict is written.
FramesWrite ==
    /\ e_pc = "loop"
    /\ e_i > Len(highlight_metadata)
    /\ metadata_file' = Some(image_metadata)
    /\ e_result' = Some(TRUE)
    /\ e_pc' = "return"
    /\ UNCHANGED <<highlight_metadata, clip_files, image_metadata, e_i, e_duration, e_log,
                   notFrames>>

\* Lines 166-168 and 176-178: the file cannot be written.
FramesWriteFails ==
    /\ e_pc = "loop"
    /\ e_i > Len(highlight_metadata)
    /\ e_log' = Append(e_log, Logged("write_failed", "not_run", 0, 0))
    /\ e_result' = Some(FALSE)
    /\ e_pc' = "return"
    /\ UNCHANGED <<highlight_metadata, clip_files, image_metadata, e_i, e_duration,
                   metadata_file, notFrames>>

NextExtractFrames ==
    \/ FramesCall
    \/ FramesKeyError
    \/ FramesMissingFile
    \/ FramesProbe
    \/ FramesProbeRaises
    \/ FramesSnapshots
    \/ FramesWrite
    \/ FramesWriteFails

------------------------------------------------------------------------------
\* shortlist_highlights: analyzeAudio.py 289-351, with S3Storage.download_file,
\* storage.py 28-51.

\* Line 333: `gap_threshold=4.0`, in half seconds.
ShortlistGapThreshold == 8

\* What detect_excitement returns for the audio: time-ordered segments.
DetectOutputs ==
    {<<>>, <<<<0, 1>>>>, <<<<0, 1>>, <<2, 3>>>>, <<<<0, 1>>, <<6, 7>>>>}

DownloadSwallows(failed) == FALSE

\* storage.py 29-33: `except Exception as e: print(...); raise`.
DownloadRaises(failed) == failed

\* storage.py 28-33 and 40-51: boto3 raises when the object is not in the
\* bucket or the storage cannot be reached.
DownloadFails(key, reached) == ~(reached /\ key \in bucket)

\* analyzeAudio.py 150-241: the records of the clips whose extraction succeeded.
ExtractedRecords(segments, succeeded) ==
    SelectSeq([i \in 1..Len(segments) |->
                   ClipRecord(i, Start(segments[i]), End(segments[i]))],
              LAMBDA r : r.highlight_file \in succeeded)

IdleShortlist ==
    /\ bucket = {}
    /\ disk = {}
    /\ stages = <<>>
    /\ failed_downloads = {}
    /\ exciting_moments = <<>>
    /\ merged_moments = <<>>
    /\ sl_metadata = <<>>
    /\ written = {}
    /\ raised = None
    /\ sl_pc = "idle"

\* Lines 289-319: the call has made its paths and directories.  Files of an
\* earlier run may be on the disk.
InitShortlist ==
    /\ bucket \in SUBSET {"raw", "split_audio"}
    /\ disk \in SUBSET {"video_file", "mp3_file", "metadata_file"}
    /\ stages = <<>>
    /\ failed_downloads = {}
    /\ exciting_moments = <<>>
    /\ merged_moments = <<>>
    /\ sl_metadata = <<>>
    /\ written = {}
    /\ raised = None
    /\ sl_pc = "download_raw_video"

\* Line 322 and storage.py 40-42.
ShortlistDownloadRawVideo ==
    /\ sl_pc = "download_raw_video"
    /\ stages' = Append(stages, "download_raw_video")
    /\ \E reached \in BOOLEAN :
          LET failed == DownloadFails("raw", reached)
          IN  /\ failed_downloads' =
                    IF failed THEN failed_downloads \cup {"download_raw_video"}
                    ELSE failed_downloads
              /\ disk' = IF failed THEN disk ELSE disk \cup {"video_file"}
              /\ IF DownloadRaises(failed)
                 THEN raised' = Some("download_raw_video") /\ sl_pc' = "raised"
                 ELSE raised' = raised /\ sl_pc' = "download_split_audio"
    /\ UNCHANGED <<bucket, exciting_moments, merged_moments, sl_metadata, written,
                   notShortlist>>

\* Line 323 and storage.py 49-51.
ShortlistDownloadSplitAudio ==
    /\ sl_pc = "download_split_audio"
    /\ stages' = Append(stages, "download_split_audio")
    /\ \E reached \in BOOLEAN :
          LET failed == DownloadFails("split_audio", reached)
          IN  /\ failed_downloads' =
                    IF failed THEN failed_downloads \cup {"download_split_audio"}
                    ELSE failed_downloads
              /\ disk' = IF failed THEN disk ELSE disk \cup {"mp3_file"}
              /\ IF DownloadRaises(failed)
                 THEN raised' = Some("download_split_audio") /\ sl_pc' = "raised"
                 ELSE raised' = raised /\ sl_pc' = "detect_excitement"
    /\ UNCHANGED <<bucket, exciting_moments, merged_moments, sl_metadata, written,
                   notShortlist>>

\* Lines 326-329: librosa loads mp3_file; a missing or undecodable file raises.
ShortlistDetectExcitement ==
    /\ sl_pc = "detect_excitement"
    /\ stages' = Append(stages, "detect_excitement")
    /\ \E decoded \in BOOLEAN :
          IF decoded /\ "mp3_file" \in disk
          THEN /\ exciting_moments' \in DetectOutputs
               /\ raised' = raised
               /\ sl_pc' = "merge_close_segments"
          ELSE /\ exciting_moments' = exciting_moments
               /\ raised' = Some("detect_excitement")
               /\ sl_pc' = "raised"
    /\ UNCHANGED <<bucket, disk, failed_downloads, merged_moments, sl_metadata, written,
                   notShortlist>>

\* Lines 332-339.
ShortlistMergeCloseSegments ==
    /\ sl_pc = "merge_close_segments"
    /\ stages' = Append(stages, "merge_close_segments")
    /\ merged_moments' = MergeCloseSegments(exciting_moments, ShortlistGapThreshold)
    /\ sl_pc' = "extract_highlight_clips"
    /\ UNCHANGED <<bucket, disk, failed_downloads, exciting_moments, sl_metadata, written,
                   raised, notShortlist>>

\* Lines 342-345: a clip whose extraction fails is left out of the records.
ShortlistExtractHighlightClips ==
    /\ sl_pc = "extract_highlight_clips"
    /\ stages' = Append(stages, "extract_highlight_clips")
    /\ \E succeeded \in SUBSET (1..Len(merged_moments)) :
          /\ sl_metadata' = ExtractedRecords(merged_moments, succeeded)
          /\ written' =
                written \cup (IF "video_file" \in disk /\ succeeded # {}
                              THEN {"highlights"} ELSE {})
    /\ sl_pc' = "save_metadata_to_json"
    /\ UNCHANGED <<bucket, disk, failed_downloads, exciting_moments, merged_moments,
                   raised, notShortlist>>

\* Lines 348-349 and 275-286.
ShortlistSaveMetadataToJson ==
    /\ sl_pc = "save_metadata_to_json"
    /\ stages' = Append(stages, "save_metadata_to_json")
    /\ \E saved \in BOOLEAN :
          IF saved
          THEN /\ written' = written \cup {"metadata_file"}
               /\ disk' = disk \cup {"metadata_file"}
               /\ raised' = raised
               /\ sl_pc' = "extract_frames"
          ELSE /\ written' = written
               /\ disk' = disk
               /\ raised' = Some("save_metadata_to_json")
               /\ sl_pc' = "raised"
    /\ UNCHANGED <<bucket, failed_downloads, exciting_moments, merged_moments,
                   sl_metadata, notShortlist>>

\* Line 351: extract_frames never raises and its result is not looked at.
ShortlistExtractFrames ==
    /\ sl_pc = "extract_frames"
    /\ stages' = Append(stages, "extract_frames")
    /\ \E result \in BOOLEAN :
          written' = written \cup (IF result /\ "metadata_file" \in disk
                                  THEN {"image_metadata"} ELSE {})
    /\ sl_pc' = "return"
    /\ UNCHANGED <<bucket, disk, failed_downloads, exciting_moments, merged_moments,
                   sl_metadata, raised, notShortlist>>

NextShortlist ==
    \/ ShortlistDownloadRawVideo
    \/ ShortlistDownloadSplitAudio
    \/ ShortlistDetectExcitement
    \/ ShortlistMergeCloseSegments
    \/ ShortlistExtractHighlightClips
    \/ ShortlistSaveMetadataToJson
    \/ ShortlistExtractFrames

------------------------------------------------------------------------------
\* upload_video: main.py 18-97, with S3Storage, storage.py 7-69, and
\* extractAudio.py.

\* Lines 71-75: the keys of `futures`, in the order line 78 reads the results.
Tasks == <<"raw", "audio", "video">>

TaskNames == {Tasks[k] : k \in 1..Len(Tasks)}

Signatures == {"a", "b"}

\* The rows an earlier upload can have left: one video per signature.
ExistingVideos == {[id |-> "video_" \o s, file_signature |-> s] : s \in Signatures}

\* Line 38: a fresh uuid4.
NewVideoId == "new"

\* Lines 82-88.
NewVideo == [id |-> NewVideoId, file_signature |-> u_signature]

\* Lines 30-32: the rows with this signature.
Duplicates == {v \in u_db : v.file_signature = u_signature}

\* storage.py 7-69: S3Storage defines upload_raw_video, upload_split_audio,
\* upload_highlights and upload_highlights_metadata, and no upload_split_video,
\* so line 67 of main.py raises AttributeError.
HasUploadSplitVideo == FALSE

ResultSwallows(state) == FALSE

\* Line 78: `future.result()` raises what the task raised.
ResultRaises(state) == state = "raised"

\* Line 78: the first task, in the order of the keys, whose result raises.
FirstRaised ==
    Tasks[CHOOSE k \in 1..Len(Tasks) :
              /\ ResultRaises(u_tasks[Tasks[k]])
              /\ \A j \in 1..(k - 1) : ~ResultRaises(u_tasks[Tasks[j]])]

Returned(id) == Some([kind |-> "returned", value |-> id])

Raised(what) == Some([kind |-> "raised", value |-> what])

IdleUpload ==
    /\ u_db = {}
    /\ u_signature = "a"
    /\ u_copied = FALSE
    /\ u_tasks = [t \in TaskNames |-> "not_submitted"]
    /\ u_uploaded = {}
    /\ u_result = None
    /\ u_pc = "idle"

\* Lines 23-27.
InitUpload ==
    /\ u_db \in SUBSET ExistingVideos
    /\ u_signature \in Signatures
    /\ u_copied = FALSE
    /\ u_tasks = [t \in TaskNames |-> "not_submitted"]
    /\ u_uploaded = {}
    /\ u_result = None
    /\ u_pc = "call"

\* Lines 30-35.
UploadDuplicate ==
    /\ u_pc = "call"
    /\ \E v \in Duplicates : u_result' = Returned(v.id)
    /\ u_pc' = "return"
    /\ UNCHANGED <<u_db, u_signature, u_copied, u_tasks, u_uploaded, notUpload>>

\* Lines 37-75: the copy (whose exit status is not looked at) and the three
\* submits.
UploadSubmit ==
    /\ u_pc = "call"
    /\ Duplicates = {}
    /\ u_copied' \in BOOLEAN
    /\ u_tasks' = [t \in TaskNames |-> "running"]
    /\ u_pc' = "collect"
    /\ UNCHANGED <<u_db, u_signature, u_uploaded, u_result, notUpload>>

\* Lines 50-53 and storage.py 19-25, 36-38.
UploadRaw ==
    /\ u_tasks["raw"] = "running"
    /\ \E accepted \in BOOLEAN :
          IF u_copied /\ accepted
          THEN /\ u_tasks' = [u_tasks EXCEPT !["raw"] = "done"]
               /\ u_uploaded' = u_uploaded \cup {"raw"}
          ELSE /\ u_tasks' = [u_tasks EXCEPT !["raw"] = "raised"]
               /\ u_uploaded' = u_uploaded
    /\ UNCHANGED <<u_db, u_signature, u_copied, u_result, u_pc, notUpload>>

\* Lines 55-58 and extractAudio.py 4-22.
ProcessAudioExtract ==
    /\ u_tasks["audio"] = "running"
    /\ \E extracted \in BOOLEAN :
          u_tasks' = [u_tasks EXCEPT !["audio"] =
                         IF u_copied /\ extracted THEN "extracted" ELSE "raised"]
    /\ UNCHANGED <<u_db, u_signature, u_copied, u_uploaded, u_result, u_pc, notUpload>>

\* Lines 59-60 and storage.py 19-25, 45-47.
ProcessAudioUpload ==
    /\ u_tasks["audio"] = "extracted"
    /\ \E accepted \in BOOLEAN :
          IF accepted
          THEN /\ u_tasks' = [u_tasks EXCEPT !["audio"] = "done"]
               /\ u_uploaded' = u_uploaded \cup {"split_audio"}
          ELSE /\ u_tasks' = [u_tasks EXCEPT !["audio"] = "raised"]
               /\ u_uploaded' = u_uploaded
    /\ UNCHANGED <<u_db, u_signature, u_copied, u_result, u_pc, notUpload>>

\* Lines 62-65 and extractAudio.py 25-43.
ProcessVideoExtract ==
    /\ u_tasks["video"] = "running"
    /\ \E extracted \in BOOLEAN :
          u_tasks' = [u_tasks EXCEPT !["video"] =
                         IF u_copied /\ extracted THEN "extracted" ELSE "raised"]
    /\ UNCHANGED <<u_db, u_signature, u_copied, u_uploaded, u_result, u_pc, notUpload>>

\* Lines 66-67.
ProcessVideoUpload ==
    /\ u_tasks["video"] = "extracted"
    /\ \E accepted \in BOOLEAN :
          IF HasUploadSplitVideo /\ accepted
          THEN /\ u_tasks' = [u_tasks EXCEPT !["video"] = "done"]
               /\ u_uploaded' = u_uploaded \cup {"split_video"}
          ELSE /\ u_tasks' = [u_tasks EXCEPT !["video"] = "raised"]
               /\ u_uploaded' = u_uploaded
    /\ UNCHANGED <<u_db, u_signature, u_copied, u_result, u_pc, notUpload>>

\* Lines 70 and 78-97: the results are read in the order of the keys; leaving
\* the `with` block waits for every task, also when a result raised; the row
\* is added and committed when none did.
UploadCollect ==
    /\ u_pc = "collect"
    /\ \A t \in TaskNames : u_tasks[t] \in {"done", "raised"}
    /\ IF \E t \in TaskNames : ResultRaises(u_tasks[t])
       THEN /\ u_result' = Raised(FirstRaised)
            /\ u_db' = u_db
       ELSE \E committed \in BOOLEAN :
               IF committed
               THEN u_db' = u_db \cup {NewVideo} /\ u_result' = Returned(NewVideoId)
               ELSE u_db' = u_db /\ u_result' = Raised("commit")
    /\ u_pc' = "return"
    /\ UNCHANGED <<u_signature, u_copied, u_tasks, u_uploaded, notUpload>>

NextUpload ==
    \/ UploadDuplicate
    \/ UploadSubmit
    \/ UploadRaw
    \/ ProcessAudioExtract
    \/ ProcessAudioUpload
    \/ ProcessVideoExtract
    \/ ProcessVideoUpload
    \/ UploadCollect

------------------------------------------------------------------------------
\* SequenceScorer's worker pool and the Aggregator: spec 4.6, 4.7 and 5.

\* 4.6: "a bounded worker pool (configurable concurrency, default small, e.g. 2-4)".
PoolSize == 2

Workers == 1..PoolSize

\* 4.6: a result is a success or, after the retries, error-tagged: status
\* error and probability 0.0.  Probabilities are in tenths.
SequenceScore(clip_index, status) ==
    [clip_index |-> clip_index, status |-> status,
     probability |-> IF status = "success" THEN 8 ELSE 0]

\* The tasks in the order of submission: ascending clip index.
RECURSIVE Ascending(_)
Ascending(S) ==
    IF S = {} THEN <<>>
    ELSE LET least == CHOOSE i \in S : \A j \in S : i <= j
         IN  <<least>> \o Ascending(S \ {least})

Resting == [state |-> "resting", clip_index |-> 0, status |-> "none", snapshot |-> <<>>]

\* The workers that are between reading the collection and writing it.
Writers == {w \in Workers : workers[w].state = "writing"}

MayEnterUnguarded(writers) == TRUE

\* 5: the collection "must be written through a concurrency-safe aggregation
\* point": one writer at a time.
MayEnter(writers) == writers = {}

\* 4.7: "Sort all SequenceScores by clip index ascending".
RECURSIVE InsertByClipIndex(_, _)
InsertByClipIndex(sorted, score) ==
    IF sorted = <<>> THEN <<score>>
    ELSE IF score.clip_index < Head(sorted).clip_index THEN <<score>> \o sorted
    ELSE <<Head(sorted)>> \o InsertByClipIndex(Tail(sorted), score)

RECURSIVE SortFrom(_, _)
SortFrom(sorted, rest) ==
    IF rest = <<>> THEN sorted
    ELSE SortFrom(InsertByClipIndex(sorted, Head(rest)), Tail(rest))

InCompletionOrder(written_scores) == written_scores

SortByClipIndex(written_scores) == SortFrom(<<>>, written_scores)

IdlePool ==
    /\ submitted = {}
    /\ remote = <<>>
    /\ task_queue = <<>>
    /\ workers = [w \in Workers |-> Resting]
    /\ collection = <<>>
    /\ aggregated = None
    /\ w_pc = "idle"

\* 4.6: the clips of the input mapping have been submitted.
InitPool ==
    /\ submitted \in SUBSET (1..MaxTasks)
    /\ remote \in [submitted -> {"success", "error"}]
    /\ task_queue = Ascending(submitted)
    /\ workers = [w \in Workers |-> Resting]
    /\ collection = <<>>
    /\ aggregated = None
    /\ w_pc = "scoring"

\* 5: a free worker takes the next task.
PoolTake(w) ==
    /\ w_pc = "scoring"
    /\ workers[w].state = "resting"
    /\ task_queue # <<>>
    /\ workers' = [workers EXCEPT ![w] =
                      [state |-> "scoring", clip_index |-> Head(task_queue),
                       status |-> "none", snapshot |-> <<>>]]
    /\ task_queue' = Tail(task_queue)
    /\ UNCHANGED <<submitted, remote, collection, aggregated, w_pc, notPool>>

\* 4.6: the task blocks on the remote model and ends in a result, success or error.
PoolScore(w) ==
    /\ workers[w].state = "scoring"
    /\ workers' = [workers EXCEPT ![w].state = "scored",
                                  ![w].status = remote[workers[w].clip_index]]
    /\ UNCHANGED <<submitted, remote, task_queue, collection, aggregated, w_pc, notPool>>

\* 5: the task enters the aggregation point and reads the collection.
PoolEnter(w) ==
    /\ workers[w].state = "scored"
    /\ MayEnter(Writers)
    /\ workers' = [workers EXCEPT ![w].state = "writing", ![w].snapshot = collection]
    /\ UNCHANGED <<submitted, remote, task_queue, collection, aggregated, w_pc, notPool>>

\* 5: the task writes the collection with its result added and leaves.
PoolWrite(w) ==
    /\ workers[w].state = "writing"
    /\ collection' =
          Append(workers[w].snapshot,
                 SequenceScore(workers[w].clip_index, workers[w].status))
    /\ workers' = [workers EXCEPT ![w] = Resting]
    /\ UNCHANGED <<submitted, remote, task_queue, aggregated, w_pc, notPool>>

\* 4.7: every task has ended; the Aggregator sorts the collection.
PoolAggregate ==
    /\ w_pc = "scoring"
    /\ task_queue = <<>>
    /\ \A w \in Workers : workers[w].state = "resting"
    /\ aggregated' = Some(SortByClipIndex(collection))
    /\ w_pc' = "done"
    /\ UNCHANGED <<submitted, remote, task_queue, workers, collection, notPool>>

NextPool ==
    \/ \E w \in Workers : PoolTake(w)
    \/ \E w \in Workers : PoolScore(w)
    \/ \E w \in Workers : PoolEnter(w)
    \/ \E w \in Workers : PoolWrite(w)
    \/ PoolAggregate

------------------------------------------------------------------------------
\* Specifications: one per function under study, the others idle, and their union.

InitSpecMerge ==
    /\ InitMerge
    /\ IdleFind /\ IdleScore /\ IdleClips /\ IdleParse /\ IdleInspect /\ IdleStitch
    /\ IdleExtractFrames /\ IdleShortlist /\ IdleUpload /\ IdlePool

SpecMerge == InitSpecMerge /\ [][NextMerge]_vars

InitSpecFind ==
    /\ InitFind
    /\ IdleMerge /\ IdleScore /\ IdleClips /\ IdleParse /\ IdleInspect /\ IdleStitch
    /\ IdleExtractFrames /\ IdleShortlist /\ IdleUpload /\ IdlePool

SpecFind == InitSpecFind /\ [][NextFind]_vars

InitSpecScore ==
    /\ InitScore
    /\ IdleMerge /\ IdleFind /\ IdleClips /\ IdleParse /\ IdleInspect /\ IdleStitch
    /\ IdleExtractFrames /\ IdleShortlist /\ IdleUpload /\ IdlePool

SpecScore == InitSpecScore /\ [][NextScore]_vars

InitSpecClips ==
    /\ InitClips
    /\ IdleMerge /\ IdleFind /\ IdleScore /\ IdleParse /\ IdleInspect /\ IdleStitch
    /\ IdleExtractFrames /\ IdleShortlist /\ IdleUpload /\ IdlePool

SpecClips == InitSpecClips /\ [][NextClips]_vars

InitSpecParse ==
    /\ InitParse
    /\ IdleMerge /\ IdleFind /\ IdleScore /\ IdleClips /\ IdleInspect /\ IdleStitch
    /\ IdleExtractFrames /\ IdleShortlist /\ IdleUpload /\ IdlePool

SpecParse == InitSpecParse /\ [][NextParse]_vars

InitSpecInspect ==
    /\ InitInspect
    /\ IdleMerge /\ IdleFind /\ IdleScore /\ IdleClips /\ IdleParse /\ IdleStitch
    /\ IdleExtractFrames /\ IdleShortlist /\ IdleUpload /\ IdlePool

SpecInspect == InitSpecInspect /\ [][NextInspect]_vars

InitSpecStitch ==
    /\ InitStitch
    /\ IdleMerge /\ IdleFind /\ IdleScore /\ IdleClips /\ IdleParse /\ IdleInspect
    /\ IdleExtractFrames /\ IdleShortlist /\ IdleUpload /\ IdlePool

SpecStitch == InitSpecStitch /\ [][NextStitch]_vars

InitSpecExtractFrames ==
    /\ InitExtractFrames
    /\ IdleMerge /\ IdleFind /\ IdleScore /\ IdleClips /\ IdleParse /\ IdleInspect
    /\ IdleStitch /\ IdleShortlist /\ IdleUpload /\ IdlePool

SpecExtractFrames == InitSpecExtractFrames /\ [][NextExtractFrames]_vars

InitSpecShortlist ==
    /\ InitShortlist
    /\ IdleMerge /\ IdleFind /\ IdleScore /\ IdleClips /\ IdleParse /\ IdleInspect
    /\ IdleStitch /\ IdleExtractFrames /\ IdleUpload /\ IdlePool

SpecShortlist == InitSpecShortlist /\ [][NextShortlist]_vars

InitSpecUpload ==
    /\ InitUpload
    /\ IdleMerge /\ IdleFind /\ IdleScore /\ IdleClips /\ IdleParse /\ IdleInspect
    /\ IdleStitch /\ IdleExtractFrames /\ IdleShortlist /\ IdlePool

SpecUpload == InitSpecUpload /\ [][NextUpload]_vars

InitSpecPool ==
    /\ InitPool
    /\ IdleMerge /\ IdleFind /\ IdleScore /\ IdleClips /\ IdleParse /\ IdleInspect
    /\ IdleStitch /\ IdleExtractFrames /\ IdleShortlist /\ IdleUpload

SpecPool == InitSpecPool /\ [][NextPool]_vars

InitSpecAnalyzeFrame ==
    /\ InitAnalyzeFrame
    /\ IdleMerge /\ IdleFind /\ IdleScore /\ IdleClips /\ IdleParse /\ IdleStitch
    /\ IdleExtractFrames /\ IdleShortlist /\ IdleUpload /\ IdlePool

\* Each attempt ends: the request has a timeout (line 181) and the waits are
\* finite sleeps, so a call that can take a step takes one.
SpecAnalyzeFrame ==
    InitSpecAnalyzeFrame /\ [][NextAnalyzeFrame]_vars /\ WF_vars(NextAnalyzeFrame)

Init ==
    \/ InitSpecMerge \/ InitSpecFind \/ InitSpecScore \/ InitSpecClips
    \/ InitSpecParse \/ InitSpecInspect \/ InitSpecStitch
    \/ InitSpecExtractFrames \/ InitSpecShortlist \/ InitSpecUpload
    \/ InitSpecPool \/ InitSpecAnalyzeFrame

Next ==
    \/ NextMerge \/ NextFind \/ NextScore \/ NextClips \/ NextParse
    \/ NextInspect \/ NextStitch \/ NextExtractFrames \/ NextShortlist
    \/ NextUpload \/ NextPool

Spec == Init /\ [][Next]_vars

------------------------------------------------------------------------------
\* Claims about merge_close_segments.

\* The forward pass as the specification states it: the list accepted after the
\* first k segments, each next segment either extending the last accepted one
\* to the larger end or being appended.
RECURSIVE AcceptedAfter(_, _, _)
AcceptedAfter(segs, k, gap) ==
    IF k = 0 THEN <<>>
    ELSE IF k = 1 THEN <<segs[1]>>
    ELSE LET acc == AcceptedAfter(segs, k - 1, gap)
             last == acc[Len(acc)]
             next == segs[k]
             larger == IF last[2] >= next[2] THEN last[2] ELSE next[2]
         IN  IF 2 * (next[1] - last[2]) <= gap
             THEN [acc EXCEPT ![Len(acc)] = <<last[1], larger>>]
             ELSE Append(acc, next)

\* C1: merge_close_segments is one forward pass: while it loops, and when it
\* returns, the accepted list is the one the pass prescribes for the segments
\* consumed so far (merge into the last accepted segment with end
\* max(last.end, next.end) when next.start - last.end <= gap_threshold, append
\* otherwise); [(0,2),(3,5)] gives [(0,5)] at 4.0 s and stays as it is at
\* 0.5 s; the empty input gives the empty output.
C1_ForwardPass ==
    /\ m_pc = "loop" => merged_segments = AcceptedAfter(m_segments, m_i - 1, gap_threshold)
    /\ m_pc = "return" =>
          /\ merged_segments = AcceptedAfter(m_segments, Len(m_segments), gap_threshold)
          /\ m_segments = <<>> => merged_segments = <<>>
          /\ (m_segments = <<<<0, 2>>, <<3, 5>>>> /\ gap_threshold = 8)
                => merged_segments = <<<<0, 5>>>>
          /\ (m_segments = <<<<0, 2>>, <<3, 5>>>> /\ gap_threshold = 1)
                => merged_segments = <<<<0, 2>>, <<3, 5>>>>

\* A run that returned after merging into a segment whose end was already the
\* larger one, then appending a segment beyond the gap.
C1_Witness ==
    /\ m_pc = "return"
    /\ gap_threshold = 1
    /\ m_segments = <<<<0, 3>>, <<1, 2>>, <<4, 6>>>>
    /\ merged_segments = <<<<0, 3>>, <<4, 6>>>>

------------------------------------------------------------------------------
\* Claims about _find_excitement_segments.

\* Window k of the series scores strictly above thr (thousandths).
Exciting(k, thr) == 100 * scores[k] > thr

\* The windows that open a run: above thr, and first or preceded by a window at or below thr.
RunOpens(thr) ==
    {k \in 1..Len(scores) : Exciting(k, thr) /\ (k = 1 \/ ~Exciting(k - 1, thr))}

\* The opening window of the run that window k (above thr) belongs to.
OpeningOf(k, thr) ==
    CHOOSE j \in 1..k :
        /\ j \in RunOpens(thr)
        /\ \A x \in j..k : Exciting(x, thr)

\* The runs closed inside the series, as <<opening window, closing window>>: the
\* closing window is the first one after the opening that is at or below thr.
ClosedRuns(thr) ==
    {r \in RunOpens(thr) \X (1..Len(scores)) :
        /\ r[1] < r[2]
        /\ ~Exciting(r[2], thr)
        /\ \A x \in r[1]..(r[2] - 1) : Exciting(x, thr)}

Elements(s) == {s[k] : k \in 1..Len(s)}

WindowTime(k) == (k - 1) * hop

\* C2: a run closed inside the series is a segment of the result if and only
\* if it lasted at least min_excitement_duration = 1.5 s (a run of exactly
\* 1.5 s is kept, one of 1.49 s is not), for every score series.
C2_KeptIffLongEnough ==
    f_pc = "return" =>
        /\ \A r \in ClosedRuns(excitement_threshold) :
              LET seg == <<WindowTime(r[1]), WindowTime(r[2])>>
              IN  (seg \in Elements(f_segments)) <=> (seg[2] - seg[1] >= 150)
        /\ \A r \in ClosedRuns(excitement_threshold) :
              (WindowTime(r[2]) - WindowTime(r[1]) = 150)
                 => <<WindowTime(r[1]), WindowTime(r[2])>> \in Elements(f_segments)
        /\ \A r \in ClosedRuns(excitement_threshold) :
              (WindowTime(r[2]) - WindowTime(r[1]) = 149)
                 => <<WindowTime(r[1]), WindowTime(r[2])>> \notin Elements(f_segments)

\* A single run of exactly 1.5 s (three windows 0.5 s apart, closed by the
\* fourth), retained.
C2_Witness ==
    /\ f_pc = "return"
    /\ hop = 50
    /\ scores = <<7, 7, 7, 3>>
    /\ excitement_threshold = 500
    /\ f_segments = <<<<0, 150>>>>

TrailingOpen(thr) == OpeningOf(Len(scores), thr)

TrailingKept(segs, thr) ==
    LET n == Len(scores)
        seg == <<WindowTime(TrailingOpen(thr)), WindowTime(n)>>
    IN  IF WindowTime(n) - WindowTime(TrailingOpen(thr)) >= 150
        THEN segs # <<>> /\ segs[Len(segs)] = seg
        ELSE \A s \in Elements(segs) : s[1] # seg[1]

\* C4: when the series ends while a run is open (the last window is above the
\* threshold), the run is closed at the final timestamp and kept under the same
\* rule: it is the last segment of the result iff final timestamp - run start
\* >= 1.5 s, and otherwise no segment starts at its opening.  Both detectors.
C4_TrailingRun ==
    /\ (f_pc = "return" /\ Exciting(Len(scores), excitement_threshold))
          => TrailingKept(f_segments, excitement_threshold)
    /\ (p_pc = "return" /\ Exciting(Len(scores), threshold))
          => TrailingKept(p_segments, threshold)

\* A series ending inside a run that has lasted exactly 1.5 s, kept by both detectors.
C4_Witness ==
    /\ f_pc = "return"
    /\ p_pc = "return"
    /\ hop = 150
    /\ scores = <<3, 3, 7, 7>>
    /\ excitement_threshold = 500
    /\ percentile_threshold = 50
    /\ f_segments = <<<<300, 450>>>>
    /\ p_segments = <<<<300, 450>>>>

\* C5: the fixed detector and the percentile detector return the same list of
\* segments whenever the fixed threshold equals the computed percentile value.
C5_ModesAgree ==
    (f_pc = "return" /\ p_pc = "return" /\ excitement_threshold = threshold)
        => f_segments = p_segments

\* Both returned with equal thresholds, and the common result is not empty.
C5_Witness ==
    /\ f_pc = "return"
    /\ p_pc = "return"
    /\ excitement_threshold = threshold
    /\ excitement_threshold # DefaultExcitementThreshold
    /\ f_segments # <<>>
    /\ f_segments = p_segments

------------------------------------------------------------------------------
\* Claims about the excitement score.

\* A float that is a number in [0, 1].
InUnitInterval(x) == ~x.nan /\ x.den > 0 /\ 0 <= x.num /\ x.num <= x.den

Constant(array) == \A j, k \in 1..Len(array) : array[j] = array[k]

\* C6: every excitement score of a FeatureSeries lies in [0, 1].
C6_ScoreInUnitInterval ==
    s_pc = "scored" =>
        \A k \in 1..Len(excitement_score) : InUnitInterval(excitement_score[k])

\* C7: when a raw signal is constant over the series (max = min), the
\* normalization yields defined values and the score series is defined (no
\* not-a-number).
C7_ConstantSignalDefined ==
    (s_pc = "scored" /\ (Constant(high_freq_energy) \/ Constant(contrast_mean) \/ Constant(rms)))
        => \A k \in 1..Len(excitement_score) : ~excitement_score[k].nan

------------------------------------------------------------------------------
\* Claims about extract_highlight_clips.

\* C8: for every segment (start, end) with end > start >= 0 the cut starts at
\* buffered_start = max(0, start - 2) >= 0 and ends at buffered_end = end + 2
\* (no upper clamp), and its duration buffered_end - buffered_start is positive.
C8_BufferedCut ==
    c_pc \in {"first_pass", "second_pass", "cleanup", "except"} =>
        LET start == c_segments[c_i][1]
            end == c_segments[c_i][2]
        IN  /\ buffered_start = (IF start - 2 > 0 THEN start - 2 ELSE 0)
            /\ buffered_start >= 0
            /\ buffered_end = end + 2
            /\ duration = buffered_end - buffered_start
            /\ duration > 0

\* The first pass is about to cut a segment starting before 2 s (the clamp
\* applies) and ending beyond every other segment end of the model.
C8_Witness ==
    /\ c_pc = "first_pass"
    /\ c_segments[c_i] = <<1, 3>>
    /\ buffered_start = 0
    /\ buffered_end = 5
    /\ duration = 5

\* C9: once a segment has been handled, its intermediate file temp_<i>.ts is
\* gone, whichever of the two passes failed or none.
C9_NoIntermediateLeft ==
    \A k \in 1..Len(c_segments) :
        (k < c_i \/ c_pc = "return") => <<"temp", k>> \notin files

\* The call returned after a segment whose first pass failed and one whose
\* second pass failed, and neither intermediate file is left.
C9_Witness ==
    /\ c_pc = "return"
    /\ outcomes = <<"first_pass_failed", "second_pass_failed">>
    /\ <<"temp", 1>> \notin files
    /\ <<"temp", 2>> \notin files

\* The records of the segments among the first k whose two passes succeeded, in
\* segment order.
RECURSIVE SucceededRecords(_)
SucceededRecords(k) ==
    IF k = 0 THEN <<>>
    ELSE IF outcomes[k] = "ok"
         THEN Append(SucceededRecords(k - 1),
                     [start_time |-> c_segments[k][1], end_time |-> c_segments[k][2],
                      highlight_file |-> k])
         ELSE SucceededRecords(k - 1)

\* C10: for any pattern of failures of the two passes, every segment is
\* processed and the returned metadata holds exactly one record per segment
\* whose two passes both succeeded, in segment order, and none for a segment
\* with a failed pass: a failure never stops the later segments.
C10_FailuresIsolated ==
    /\ c_pc = "iter" => metadata = SucceededRecords(c_i - 1)
    /\ c_pc = "return" =>
          /\ Len(outcomes) = Len(c_segments)
          /\ metadata = SucceededRecords(Len(c_segments))

\* The first segment failed and the second one, processed all the same, is the
\* only record returned.
C10_Witness ==
    /\ c_pc = "return"
    /\ outcomes = <<"first_pass_failed", "ok">>
    /\ Len(metadata) = 1
    /\ metadata[1].highlight_file = 2

------------------------------------------------------------------------------
\* parse_model_response: C15, C16, C17.

\* What the text gives a category, in hundredths: 0 when it gives nothing.
Parsed(c) == IF text_response.values[c] = None THEN 0 ELSE text_response.values[c][1]

ParsedSum == Parsed("short_clip") + Parsed("long_clip") + Parsed("unimportant")

\* C15: every probability the parser returns lies in [0,1], whatever numbers
\* the text carries.
C15_ProbabilitiesInUnitInterval ==
    r_pc = "return" =>
        \A c \in Categories : 0 <= probabilities[c] /\ probabilities[c] <= probabilities.den

\* C16: when the parsed values sum to more than 0.1 away from 1 they are each
\* divided by their sum (and then sum to 1), or become {0, 0, unimportant 1}
\* when they are all zero; within 0.1 of 1 they are left as parsed.
C16_RescaledOrDefault ==
    r_pc = "normalized" =>
        IF ParsedSum > 110 \/ ParsedSum < 90
        THEN IF \A c \in Categories : Parsed(c) = 0
             THEN /\ probabilities.short_clip = 0
                  /\ probabilities.long_clip = 0
                  /\ probabilities.unimportant = probabilities.den
             ELSE /\ ParsedSum # 0
                  /\ \A c \in Categories :
                        probabilities[c] * ParsedSum = Parsed(c) * probabilities.den
                  /\ Total(probabilities) = probabilities.den
        ELSE \A c \in Categories : probabilities[c] * 100 = Parsed(c) * probabilities.den

\* C17: the prediction is short_clip exactly when short_clip leads with a
\* probability of at least 0.6 and at least 0.2 above the second-best, long_clip
\* exactly when long_clip leads with at least 0.5 and at least 0.15 above the
\* second-best, and unimportant otherwise; so a tied lead gives unimportant, and
\* {short_clip 0.55, long_clip 0.05, unimportant 0.40} gives unimportant.
C17_MarginRule ==
    r_pc = "return" =>
        LET s == probabilities.short_clip
            l == probabilities.long_clip
            u == probabilities.unimportant
            d == probabilities.den
            shortWins == /\ s >= l /\ s >= u
                         /\ 10 * s >= 6 * d
                         /\ 10 * (s - Max(l, u)) >= 2 * d
            longWins == /\ l >= s /\ l >= u
                        /\ 100 * l >= 50 * d
                        /\ 100 * (l - Max(s, u)) >= 15 * d
            tiedLead == \E a, b \in Categories :
                            /\ a # b
                            /\ probabilities[a] = probabilities[b]
                            /\ \A c \in Categories : probabilities[c] <= probabilities[a]
        IN  /\ prediction = (IF shortWins THEN "short_clip"
                             ELSE IF longWins THEN "long_clip" ELSE "unimportant")
            /\ tiedLead => prediction = "unimportant"
            /\ text_response = TextOf(Some(55), Some(5), Some(40)) => prediction = "unimportant"

C17_Witness ==
    /\ r_pc = "return"
    /\ text_response = TextOf(Some(55), Some(5), Some(40))
    /\ probabilities = Probs(55, 5, 40, 100)
    /\ prediction = "unimportant"

------------------------------------------------------------------------------
\* analyze_frame and analyze_sequence: C11, C12, C13, C14.

AllTransport(log) == \A k \in 1..Len(log) : log[k] \in TransportFailures

ZeroProbabilities(p) == \A c \in Categories : p[c] = 0

WaitsFollowFailures ==
    /\ a_pc = "attempt" => Len(waits) = Len(attempt_log) /\ attempt = Len(attempt_log)
    /\ a_pc = "frame_return" => Len(waits) = Len(attempt_log) - 1

\* An attempt that got a usable text is the last of its call.
SuccessEndsLoop ==
    \A k \in 1..Len(attempt_log) :
        attempt_log[k] = "text" =>
            /\ k = Len(attempt_log)
            /\ a_pc # "attempt"
            /\ analysis.status = "success"
            /\ requests_sent = k

\* C12 as stated: the wait after failed attempt a (from 0) is 2^a seconds; no
\* wait after the final failed attempt; a success ends the loop.
C12_WaitsPowerOfTwo ==
    /\ \A k \in 1..Len(waits) : waits[k] = 2 ^ (k - 1)
    /\ WaitsFollowFailures
    /\ SuccessEndsLoop

\* C12, amended: the wait after failed attempt a (from 0) is 2 * 2^a seconds
\* (2 s, then 4 s); no wait after the final failed attempt; a success ends the
\* loop with no further request.
C12_WaitsDoubled ==
    /\ \A k \in 1..Len(waits) : waits[k] = 2 * (2 ^ (k - 1))
    /\ WaitsFollowFailures
    /\ SuccessEndsLoop

C12_Witness ==
    /\ a_pc = "frame_return"
    /\ waits = <<2, 4>>
    /\ Len(attempt_log) = 3
    /\ analysis.status = "max_retries_exceeded"

\* C13 as stated: an attempt whose call succeeded but whose text is empty or has
\* none of the expected lines ends the call with a result of status success and
\* the default probabilities; it is not retried and gives no error-tagged result.
C13_DegradedTextIsSuccess ==
    \A k \in 1..Len(attempt_log) :
        (attempt_log[k] = "empty_response"
            \/ (attempt_log[k] = "text" /\ analysis.raw_response = Some(NoLinesText))) =>
                /\ k = Len(attempt_log)
                /\ a_pc # "attempt"
                /\ analysis.status = "success"
                /\ analysis.probabilities = DefaultProbs

\* C13, amended: a text that is not empty but has none of the expected lines
\* ends the call with status success, the probabilities {0, 0, unimportant 1} and
\* the prediction unimportant, without a retry.  An empty text is handled as a
\* failed attempt: it is followed by a wait and another attempt, or, in the
\* third attempt, by a result of status max_retries_exceeded; a result of status
\* success never carries an empty text.
C13_EmptyRetriedNoLinesDefault ==
    /\ \A k \in 1..Len(attempt_log) :
          (attempt_log[k] = "text" /\ analysis.raw_response = Some(NoLinesText)) =>
                /\ k = Len(attempt_log)
                /\ a_pc # "attempt"
                /\ analysis.status = "success"
                /\ analysis.probabilities = DefaultProbs
                /\ analysis.highlight_type = "unimportant"
    /\ \A k \in 1..Len(attempt_log) :
          attempt_log[k] = "empty_response" =>
                \/ k < Len(attempt_log)
                \/ a_pc = "attempt" /\ attempt = k /\ Len(waits) = k
                \/ /\ k = max_retries
                   /\ a_pc # "attempt"
                   /\ analysis.status = "max_retries_exceeded"
                   /\ analysis.highlight_type = "error"
    /\ (analysis # None /\ analysis.status = "success") =>
          /\ analysis.raw_response # Some(BlankText)
          /\ Last(attempt_log) = "text"

C13_Witness ==
    /\ a_pc = "frame_return"
    /\ attempt_log = <<"empty_response", "empty_response", "empty_response">>
    /\ analysis.status = "max_retries_exceeded"

\* A result is tagged success, with one of the three categories, or error.
Tagged(a) ==
    \/ a.status = "success" /\ a.highlight_type \in Categories
    \/ a.status \in {"error", "max_retries_exceeded"} /\ a.highlight_type = "error"

------------------------------------------------------------------------------
\* get_highlight_files and stitch_highlights: C18, C19, C20.

SelectionDone == h_pc \in {"stitch", "concat", "return"}

\* The entry's probability is a number and is at least 0.5.
AtLeastHalf(e) == e.highlight_probability.readable /\ e.highlight_probability.value >= 50

ExampleSequences ==
    <<[highlight_num |-> 1, highlight_probability |-> Readable(90)],
      [highlight_num |-> 2, highlight_probability |-> Readable(40)],
      [highlight_num |-> 3, highlight_probability |-> Readable(60)]>>

\* C18: when every clip file exists, the selected clips are exactly those with a
\* probability >= 0.5, 0.5 included, in ascending order of clip number;
\* probabilities 0.9, 0.4, 0.6 at clips 1, 2, 3 select and stitch 1, 3.
C18_SelectsAtLeastHalfAscending ==
    (SelectionDone /\ \A k \in 1..Len(sequences) : sequences[k].highlight_num \in existing) =>
        /\ \A n \in 1..MaxSeqs :
              (\E x \in 1..Len(highlight_files) : highlight_files[x] = n)
                  <=> (\E k \in 1..Len(sequences) :
                          sequences[k].highlight_num = n /\ AtLeastHalf(sequences[k]))
        /\ \A x \in 1..(Len(highlight_files) - 1) : highlight_files[x] < highlight_files[x + 1]
        /\ sequences = ExampleSequences =>
              /\ highlight_files = <<1, 3>>
              /\ \A r \in 1..Len(concat_runs) : concat_runs[r] = <<1, 3>>
              /\ reel \in {None, Some(<<1, 3>>)}

C18_Witness ==
    /\ h_pc = "return"
    /\ sequences = ExampleSequences
    /\ existing = {1, 2, 3}
    /\ highlight_files = <<1, 3>>
    /\ reel = Some(<<1, 3>>)

Selectable(e) == AtLeastHalf(e) /\ e.highlight_num \in existing

\* The clip numbers of the selectable entries of q, in the order of q.
RECURSIVE NumbersOf(_)
NumbersOf(q) ==
    IF q = <<>> THEN <<>>
    ELSE (IF Selectable(q[1]) THEN <<q[1].highlight_num>> ELSE <<>>) \o NumbersOf(Tail(q))

\* C19: an entry that qualifies but whose file is missing, or whose probability
\* is no number, is skipped with a printed message and no error; the selection
\* is every other qualifying clip, in the order of the entries.
C19_SkipsMissingAndUnreadable ==
    /\ h_pc = "select" =>
          highlight_files = NumbersOf(SubSeq(sequences, 1, h_i - 1))
    /\ SelectionDone =>
          /\ highlight_files = NumbersOf(sequences)
          /\ \A k \in 1..Len(sequences) :
                LET e == sequences[k]
                IN  /\ (AtLeastHalf(e) /\ e.highlight_num \notin existing) <=>
                          (\E x \in 1..Len(h_log) :
                              h_log[x] = [warning |-> "missing_file", at |-> k])
                    /\ ~e.highlight_probability.readable <=>
                          (\E x \in 1..Len(h_log) :
                              h_log[x] = [warning |-> "unreadable", at |-> k])

C19_Witness ==
    /\ h_pc = "return"
    /\ sequences = <<[highlight_num |-> 1, highlight_probability |-> Readable(90)],
                     [highlight_num |-> 2, highlight_probability |-> Unreadable],
                     [highlight_num |-> 3, highlight_probability |-> Readable(60)]>>
    /\ existing = {3}
    /\ highlight_files = <<3>>
    /\ Len(h_log) = 2

\* C20: when the selection is empty, stitch_highlights runs no concatenation,
\* writes neither the list file nor the output file, and returns.
C20_NothingToStitch ==
    (SelectionDone /\ highlight_files = <<>>) =>
        /\ h_pc \in {"stitch", "return"}
        /\ concat_runs = <<>>
        /\ ~list_file
        /\ reel = None

C20_Witness ==
    /\ h_pc = "return"
    /\ Len(sequences) = 2
    /\ sequences[1].highlight_probability = Readable(40)
    /\ sequences[2].highlight_probability = Readable(0)
    /\ sequences[1].highlight_num \in existing
    /\ highlight_files = <<>>
    /\ concat_runs = <<>>
    /\ reel = None

------------------------------------------------------------------------------
\* merge_close_segments: C27.

\* C27: in the returned list every segment starts more than gap_threshold after
\* the end of the one before it, and merging the returned list again with the
\* same gap_threshold returns it unchanged.
C27_MergeIdempotent ==
    m_pc = "return" =>
        /\ merged_segments = MergeCloseSegments(m_segments, gap_threshold)
        /\ \A k \in 1..(Len(merged_segments) - 1) :
              2 * (Start(merged_segments[k + 1]) - End(merged_segments[k])) > gap_threshold
        /\ MergeCloseSegments(merged_segments, gap_threshold) = merged_segments

C27_Witness ==
    /\ m_pc = "return"
    /\ gap_threshold = 1
    /\ m_segments = <<<<0, 1>>, <<1, 2>>, <<5, 6>>>>
    /\ merged_segments = <<<<0, 2>>, <<5, 6>>>>

------------------------------------------------------------------------------
\* _find_excitement_segments: C28.

\* C28: the returned segments are in strictly increasing time order and do not
\* overlap (each ends no later than the next starts); each has end > start and
\* lasts at least min_excitement_duration.
C28_SegmentsOrderedAndLong ==
    f_pc \in {"loop", "return"} =>
        /\ \A k \in 1..Len(f_segments) :
              /\ End(f_segments[k]) > Start(f_segments[k])
              /\ End(f_segments[k]) - Start(f_segments[k]) >= 150
        /\ \A k \in 1..(Len(f_segments) - 1) :
              /\ Start(f_segments[k]) < Start(f_segments[k + 1])
              /\ End(f_segments[k]) < End(f_segments[k + 1])
              /\ End(f_segments[k]) <= Start(f_segments[k + 1])

C28_Witness ==
    /\ f_pc = "return"
    /\ hop = 150
    /\ scores = <<7, 3, 7, 3>>
    /\ excitement_threshold = 500
    /\ f_segments = <<<<0, 150>>, <<300, 450>>>>

------------------------------------------------------------------------------
\* analyze_frame called with max_retries >= 1: C29.

NotTransient == {"no_image", "not_an_object"}

\* The result of an attempt that failed in a way that is not transient.
ErrorTagged ==
    /\ a_pc = "frame_return"
    /\ analysis.status = "error"
    /\ analysis.highlight_type = "error"
    /\ ZeroProbabilities(analysis.probabilities)

\* The call has returned a result with one of the three statuses, after at most
\* max_retries attempts.
ReturnedWithStatus ==
    /\ a_pc = "frame_return"
    /\ analysis.status \in {"success", "max_retries_exceeded", "error"}
    /\ Len(attempt_log) <= max_retries

\* C29 as stated: in a call with a failure that is not transient exactly one
\* attempt is made, no backoff wait occurs and the result is error-tagged with
\* status error and all probabilities 0.0; for every max_retries >= 1 the call
\* ends with a result of status success, max_retries_exceeded or error.
C29_OneAttemptNoWait ==
    /\ [](\A k \in 1..Len(attempt_log) :
            attempt_log[k] \in NotTransient =>
                /\ Len(attempt_log) = 1
                /\ waits = <<>>
                /\ ErrorTagged)
    /\ [](a_pc = "frame_return" => ReturnedWithStatus)
    /\ <>ReturnedWithStatus

\* C29, amended: an attempt that fails in a way that is not transient is the
\* last of its call: no attempt and no backoff wait follows it (in the first
\* attempt: one attempt, no wait, at most one request), and the result is
\* error-tagged with status error and all probabilities 0.0; for every
\* max_retries >= 1 the call ends with a result of status success,
\* max_retries_exceeded or error.
C29_NotRetried ==
    /\ [](\A k \in 1..Len(attempt_log) :
            attempt_log[k] \in NotTransient =>
                /\ k = Len(attempt_log)
                /\ Len(waits) = k - 1
                /\ requests_sent \in {k - 1, k}
                /\ ErrorTagged)
    /\ [](a_pc = "frame_return" => ReturnedWithStatus)
    /\ <>ReturnedWithStatus

C29_Witness ==
    /\ a_pc = "frame_return"
    /\ max_retries = 2
    /\ attempt_log = <<"no_image">>
    /\ requests_sent = 0
    /\ waits = <<>>
    /\ analysis.status = "error"

------------------------------------------------------------------------------
\* extract_frames (analyzeImages.py 121-178).

\* The probe of the clip at position k failed or reported no duration.
ProbeInvalid(k) ==
    \/ e_log[k].probe \in {"timeout", "empty", "non_numeric"}
    \/ e_log[k].probe = "number" /\ e_log[k].duration = 0

\* The call returned and nothing raised into the handler of lines 176-178.
ReturnedUnraised ==
    /\ e_pc = "return"
    /\ highlight_metadata # <<>>
    /\ \A k \in 1..Len(e_log) : e_log[k].event \in {"missing_file", "probed", "snapshots"}

\* C23: a clip whose duration probe times out, prints nothing, prints no number
\* or reports zero is skipped: no snapshots are taken of it, its start time is
\* no key of the frame metadata, the loop goes on to the next entry, and a call
\* in which nothing raised handles every entry, writes the frame metadata file
\* and returns True.
C23_InvalidProbeSkipsClip ==
    /\ \A k \in 1..Len(e_log) :
          ProbeInvalid(k) =>
              /\ e_log[k].event = "probed"
              /\ \A r \in image_metadata : r.key # highlight_metadata[k].start_time
              /\ e_i > k
    /\ ReturnedUnraised =>
          /\ Len(e_log) = Len(highlight_metadata)
          /\ metadata_file = Some(image_metadata)
          /\ e_result = Some(TRUE)

C23_Witness ==
    /\ ReturnedUnraised
    /\ Len(e_log) = 2
    /\ e_log[1].probe = "timeout"
    /\ e_log[2].event = "snapshots"
    /\ \E r \in image_metadata : r.clip_index = 2
    /\ e_result = Some(TRUE)

\* The call returned and nothing but a malformed entry can have raised.
ReturnedMalformedAtMost ==
    /\ e_pc = "return"
    /\ \A k \in 1..Len(e_log) : e_log[k].event \notin {"probe_raised", "write_failed"}

\* C24: an entry of the clip metadata that lacks start_time or highlight_file
\* is skipped: the call handles every other entry and writes the frame
\* metadata file.
C24_MalformedEntrySkipped ==
    (/\ ReturnedMalformedAtMost
     /\ \E k \in 1..Len(highlight_metadata) : ~WellFormed(highlight_metadata[k]))
        => /\ Len(e_log) = Len(highlight_metadata)
           /\ metadata_file = Some(image_metadata)

\* C26: the index under which the frames of a clip are named is the number in
\* the clip's file name, and no two clips share an index.
C26_ClipIndexKept ==
    /\ \A r \in image_metadata :
          highlight_metadata[r.clip_index].highlight_file = r.clip_index
    /\ \A r, q \in image_metadata : r.clip_index = q.clip_index => r = q

------------------------------------------------------------------------------
\* shortlist_highlights (analyzeAudio.py 289-351).

\* C25: when the download of the raw video fails, shortlist_highlights ends
\* there: the exception of the download leaves the function, no call after the
\* download has been made and the call has written no file.
C25_RawDownloadFailureAborts ==
    "download_raw_video" \in failed_downloads =>
        /\ sl_pc = "raised"
        /\ raised = Some("download_raw_video")
        /\ stages = <<"download_raw_video">>
        /\ written = {}
        /\ exciting_moments = <<>> /\ sl_metadata = <<>>

C25_Witness ==
    /\ "download_raw_video" \in failed_downloads
    /\ "split_audio" \in bucket
    /\ disk = {"video_file", "mp3_file", "metadata_file"}
    /\ sl_pc = "raised"

------------------------------------------------------------------------------
\* upload_video (main.py 18-97).

RowAdded == \E v \in u_db : v.id = NewVideoId

IsDuplicate == \E v \in u_db : v.id # NewVideoId /\ v.file_signature = u_signature

------------------------------------------------------------------------------
\* SequenceScorer's worker pool and the Aggregator (spec 4.6, 4.7, 5).

ScoresOf(i, written_scores) ==
    {k \in 1..Len(written_scores) : written_scores[k].clip_index = i}

\* C21: under every interleaving of the tasks the results collection never
\* holds two scores of one clip, and when all tasks have ended it holds
\* exactly one score for each submitted clip index, the one that clip's task
\* produced, and nothing else.
C21_OneScorePerClip ==
    /\ \A i \in 1..MaxTasks : Cardinality(ScoresOf(i, collection)) <= 1
    /\ w_pc = "done" =>
          /\ Len(collection) = Cardinality(submitted)
          /\ \A i \in submitted :
                \E k \in 1..Len(collection) :
                    collection[k] = SequenceScore(i, remote[i])

C21_Witness ==
    /\ w_pc = "done"
    /\ Len(collection) = 3
    /\ collection[1].clip_index = 2
    /\ collection[3].clip_index = 1
    /\ collection[3].status = "error"

\* The position of a clip index among the submitted ones.
RankOf(i) == Cardinality({j \in submitted : j <= i})

\* The list that depends on the submitted clips and their results only.
ExpectedList ==
    [k \in 1..Cardinality(submitted) |->
        LET i == CHOOSE j \in submitted : RankOf(j) = k
        IN  SequenceScore(i, remote[i])]

\* C22: the aggregated list is in ascending order of clip index and is the
\* list fixed by the submitted clips and their results, whatever the order in
\* which the tasks ended.
C22_SortedWhateverTheOrder ==
    w_pc = "done" =>
        /\ aggregated # None
        /\ \A k \in 1..(Len(aggregated[1]) - 1) :
              aggregated[1][k].clip_index < aggregated[1][k + 1].clip_index
        /\ aggregated[1] = ExpectedList

C22_Witness ==
    /\ w_pc = "done"
    /\ Len(collection) = 3
    /\ collection[1].clip_index = 2
    /\ collection[2].clip_index = 1
    /\ aggregated # None
    /\ aggregated[1][1].clip_index = 1
    /\ aggregated[1][3].clip_index = 3

==============================================================================
